---- MODULE Spec2Model ----
(***************************************************************************)
(* Update-log storage and compaction of apps/tauri-desktop (main.rs).      *)
(*                                                                         *)
(* The store is the single SQLite connection behind AppState.db: the       *)
(* tables notes and yjs_updates, their AUTOINCREMENT counters, and the     *)
(* rollback journal of the transaction that is open on the connection.     *)
(* Foreground threads run the tauri commands notes_save_yjs_update,        *)
(* notes_load_yjs_updates, notes_replace_yjs_updates and the trpc          *)
(* procedures notes.createNote / notes.deleteNote; one background thread   *)
(* runs spawn_compaction_task.  Every SQL statement is one step.           *)
(***************************************************************************)
EXTENDS Integers, Sequences, FiniteSets, TLC

(***************************************************************************)
(* Bounds of the model.                                                    *)
(***************************************************************************)
MaxNotes == 2      \* note rows ever inserted (notes.id AUTOINCREMENT)
MaxSeq == 3        \* yjs_updates rows the foreground commands insert
MaxStored == 2     \* fragments per note in a database left by earlier runs
SweepNotes == 3    \* notes in a database left by earlier runs
MaxOps == 2        \* CRDT operations an editor can produce
MaxLen == 3        \* longest fragment list given to Squash on its own
MaxTime == 1       \* seconds the clock advances
CalendarDays == 3  \* local days the scheduler's calendar spans
MaxCalls == 2      \* settings.*Mode calls made on a list of modes

(***************************************************************************)
(* The CRDT engine (yrs) as the code uses it.  A client produces the       *)
(* operations 1, 2, ... in this order; operation k can be integrated only  *)
(* when operation k-1 is.  An update carries inserted operations and       *)
(* deletions; what cannot be integrated yet is kept pending.               *)
(***************************************************************************)
Ops == 1..MaxOps

\* bytes that decode: an update with inserted operations and deletions
Update == [ok : {TRUE}, ins : SUBSET Ops, del : SUBSET Ops]

\* bytes that Update::decode_v1 rejects
Corrupt == [ok |-> FALSE, ins |-> {0}, del |-> {}]

\* a payload without update bytes (load, deleteNote, empty initialContent)
NoUpdate == [ok |-> FALSE, ins |-> {}, del |-> {}]

Doc_new == [items |-> {}, pend |-> {}, dels |-> {}, pdels |-> {}]

decode_v1(bytes) == bytes.ok

apply_update(doc, u) ==
  LET have == doc.items \cup doc.pend \cup u.ins
      items == {k \in Ops : \A j \in 1..k : j \in have}
      gone == doc.dels \cup doc.pdels \cup u.del
  IN  [items |-> items, pend |-> have \ items,
       dels |-> gone \cap items, pdels |-> gone \ items]

encode_state_as_update_v1(doc) ==
  [ok |-> TRUE, ins |-> doc.items \cup doc.pend, del |-> doc.dels \cup doc.pdels]

RECURSIVE Replay(_, _)
Replay(doc, updates) ==
  IF updates = <<>> THEN doc
  ELSE Replay(apply_update(doc, Head(updates)), Tail(updates))

AllDecode(updates) == \A i \in 1..Len(updates) : decode_v1(updates[i])

\* the visible text: the integrated operations that are not deleted
get_string(doc) == doc.items \ doc.dels

\* replay into a fresh document and read the text
Materialize(updates) ==
  IF AllDecode(updates)
  THEN [ok |-> TRUE, text |-> get_string(Replay(Doc_new, updates))]
  ELSE [ok |-> FALSE, text |-> {}]

\* a document created anew for every update: only the last one is encoded
Squash_last_only(updates) ==
  IF AllDecode(updates)
  THEN [ok |-> TRUE,
        bytes |-> encode_state_as_update_v1(
                    IF updates = <<>> THEN Doc_new
                    ELSE apply_update(Doc_new, updates[Len(updates)]))]
  ELSE [ok |-> FALSE, bytes |-> NoUpdate]

\* replay into a fresh document and encode the whole state
Squash(updates) ==
  IF AllDecode(updates)
  THEN [ok |-> TRUE, bytes |-> encode_state_as_update_v1(Replay(Doc_new, updates))]
  ELSE [ok |-> FALSE, bytes |-> NoUpdate]

\* Update::decode_v1(&update).map_err(|error| error.to_string()): the text of
\* the decoder's error, which it derives from the bytes it was given
NoError == [text |-> "", bytes |-> NoUpdate]

decode_v1_error(bytes) ==
  IF decode_v1(bytes) THEN NoError
  ELSE [text |-> "decode_v1 failed", bytes |-> bytes]

\* the error compact_note_updates returns through `?`: that of the first
\* update that does not decode
RECURSIVE SquashError(_)
SquashError(updates) ==
  IF updates = <<>> THEN NoError
  ELSE IF ~decode_v1(Head(updates)) THEN decode_v1_error(Head(updates))
  ELSE SquashError(Tail(updates))

yjs_update_from_text ==
  encode_state_as_update_v1(
    apply_update(Doc_new, [ok |-> TRUE, ins |-> {1}, del |-> {}]))

(***************************************************************************)
(* The tables.  db is what the connection sees; journal is the state the   *)
(* open transaction rolls back to, NoTx when no transaction is open.       *)
(***************************************************************************)
NoTx == <<>>

NoteIds == 1..MaxNotes

\* what the webview names a note, and the icon it gives it ("none": NULL)
Titles == {"a", "b"}

Icons == {"none", "i"}

\* the title and icon of a note the webview has just created
NewTitle == "a"

NewIcon == "none"

\* a row of notes, without its id
NoteRow(title, icon, at) ==
  [title |-> title, icon |-> icon, created_at |-> at, updated_at |-> at]

init_database ==
  [rows |-> {}, seq |-> 0, notes |-> {}, noteSeq |-> 0,
   meta |-> [n \in {} |-> NoteRow(NewTitle, NewIcon, 0)]]

Max(S) == CHOOSE m \in S : \A x \in S : x <= m

\* an id computed from the number of rows
NextRowId_by_count(d) == Cardinality(d.rows) + 1

\* INTEGER PRIMARY KEY AUTOINCREMENT of yjs_updates
NextRowId(d) == Max({d.seq} \cup {r.id : r \in d.rows}) + 1

\* INTEGER PRIMARY KEY AUTOINCREMENT of notes
NextNoteId(d) == Max({d.noteSeq} \cup d.notes) + 1

NoteRows(d, note) == {r \in d.rows : r.note = note}

RECURSIVE OrderByIdDesc(_)
OrderByIdDesc(S) ==
  IF S = {} THEN <<>>
  ELSE LET m == CHOOSE r \in S : \A q \in S : r.id >= q.id
       IN  <<m>> \o OrderByIdDesc(S \ {m})

RECURSIVE OrderByIdAsc(_)
OrderByIdAsc(S) ==
  IF S = {} THEN <<>>
  ELSE LET m == CHOOSE r \in S : \A q \in S : r.id <= q.id
       IN  <<m>> \o OrderByIdAsc(S \ {m})

load_yjs_updates_for_note(d, note) ==
  LET s == OrderByIdAsc(NoteRows(d, note))
  IN  [i \in 1..Len(s) |-> s[i].data]

\* PRAGMA foreign_keys left off: any note id is accepted
ForeignKeyOk_off(d, note) == TRUE

\* FOREIGN KEY(note_id) REFERENCES notes(id), PRAGMA foreign_keys = ON
ForeignKeyOk(d, note) == note \in d.notes

\* an INSERT OR IGNORE under a unique index on (note_id, update_data)
InsertUpdate_unique(d, note, data) ==
  IF \E r \in d.rows : r.note = note /\ r.data = data THEN d
  ELSE [d EXCEPT !.rows = @ \cup {[id |-> NextRowId(d), note |-> note, data |-> data]},
                 !.seq = NextRowId(d)]

InsertUpdate(d, note, data) ==
  [d EXCEPT !.rows = @ \cup {[id |-> NextRowId(d), note |-> note, data |-> data]},
            !.seq = NextRowId(d)]

\* a DELETE that matches no row
DeleteUpdates_none(d, note) == d

DeleteUpdates(d, note) == [d EXCEPT !.rows = @ \ NoteRows(d, note)]

\* INSERT INTO notes (title, content, icon, created_at, updated_at)
InsertNote(d, title, icon, at) ==
  [d EXCEPT !.notes = @ \cup {NextNoteId(d)}, !.noteSeq = NextNoteId(d),
            !.meta = [n \in d.notes \cup {NextNoteId(d)} |->
                        IF n \in d.notes THEN d.meta[n]
                        ELSE NoteRow(title, icon, at)]]

\* UPDATE notes SET title = ?1, updated_at = ?2 WHERE id = ?3
UpdateTitle(d, note, title, at) ==
  [d EXCEPT !.meta[note].title = title, !.meta[note].updated_at = at]

\* UPDATE notes SET icon = ?1, updated_at = ?2 WHERE id = ?3
UpdateIcon(d, note, icon, at) ==
  [d EXCEPT !.meta[note].icon = icon, !.meta[note].updated_at = at]

\* a DELETE FROM notes with foreign keys off: the fragments stay
DeleteNote_no_cascade(d, note) ==
  [d EXCEPT !.notes = @ \ {note},
            !.meta = [n \in d.notes \ {note} |-> d.meta[n]]]

\* DELETE FROM notes, with ON DELETE CASCADE on yjs_updates.note_id
DeleteNote(d, note) ==
  [d EXCEPT !.notes = @ \ {note}, !.rows = @ \ NoteRows(d, note),
            !.meta = [n \in d.notes \ {note} |-> d.meta[n]]]

RECURSIVE Ascending(_)
Ascending(S) ==
  IF S = {} THEN <<>>
  ELSE LET m == CHOOSE x \in S : \A y \in S : x <= y
       IN  <<m>> \o Ascending(S \ {m})

\* the listing with HAVING COUNT(*) > 1
get_unique_note_ids_having_two(d) ==
  Ascending({r.note : r \in {q \in d.rows : Cardinality(NoteRows(d, q.note)) > 1}})

\* SELECT note_id FROM yjs_updates GROUP BY note_id (walks the note_id index)
get_unique_note_ids(d) == Ascending({r.note : r \in d.rows})

SeqsUpTo(S, n) == UNION {[1..k -> S] : k \in 0..n}

(***************************************************************************)
(* The program state.                                                      *)
(***************************************************************************)
VARIABLES
  db,        \* the tables as the connection sees them
  journal,   \* <<tables at BEGIN>> while a transaction is open, else NoTx
  lock,      \* the owner of the Mutex<Connection> AppState.db, or Free
  fg,        \* per foreground thread: the command it runs and where it is;
             \* pre remembers the tables at the moment it took the lock
  bg,        \* the compaction thread
  fn,        \* the input and the result of a function that is run on its
             \* own: Squash, duration_until_next_2am
  now        \* the clock: what now_unix_seconds() returns

vars == <<db, journal, lock, fg, bg, fn, now>>

Fg == {"f1", "f2"}

BgThread == "bg"

Free == "free"

\* what an editor sends: an insert, an edit that depends on it, broken bytes
EditorUpdates ==
  { [ok |-> TRUE, ins |-> {1}, del |-> {}],
    [ok |-> TRUE, ins |-> {2}, del |-> {1}],
    Corrupt }

Ok(val) == [ok |-> TRUE, val |-> val]

Err == [ok |-> FALSE, val |-> <<>>]

Idle ==
  [pc |-> "idle", op |-> "none", note |-> 0, data |-> NoUpdate, res |-> Err,
   pre |-> init_database]

NoReport == [note |-> 0, before |-> 0, after |-> 0, ok |-> TRUE]

BgSleep ==
  [pc |-> "sleep", queue |-> <<>>, note |-> 0, updates |-> <<>>,
   compacted |-> NoUpdate, failed |-> {}, last |-> NoReport]

NoFn ==
  [frags |-> <<>>, squashed |-> Squash(<<>>), error |-> NoError, done |-> FALSE]

\* what is on disk: an open transaction is not
Committed == IF journal = NoTx THEN db ELSE journal[1]

Init ==
  /\ db = init_database
  /\ journal = NoTx
  /\ lock = Free
  /\ fg = [t \in Fg |-> Idle]
  /\ bg = BgSleep
  /\ fn = NoFn
  /\ now = 0

(***************************************************************************)
(* Foreground: the webview invokes a command.                              *)
(***************************************************************************)
Commands == {"save", "load", "replace", "createNote", "deleteNote"}

\* the note id and the bytes that come with the call
Payloads(op) ==
  IF op \in {"save", "replace"} THEN [note : NoteIds, data : EditorUpdates]
  ELSE IF op = "createNote" THEN [note : {0}, data : {NoUpdate, yjs_update_from_text}]
  ELSE [note : NoteIds, data : {NoUpdate}]

Invoke(t) ==
  /\ fg[t].pc = "idle"
  /\ \E op \in Commands :
       fg' = [fg EXCEPT ![t] = [pc |-> "call", op |-> op, note |-> 0,
                                data |-> NoUpdate, res |-> Err,
                                pre |-> init_database]]
  /\ UNCHANGED <<db, journal, lock, bg, fn, now>>

\* a lock that is handed out while another thread owns it
MutexFree_always == TRUE

\* std::sync::Mutex: lock() returns once no other thread owns the mutex
MutexFree == lock = Free

\* rows the command is going to insert, kept within the bounds
Room(op, data) ==
  /\ op \in {"save", "replace"} => db.seq < MaxSeq
  /\ op = "createNote" =>
       /\ db.noteSeq < MaxNotes
       /\ data # NoUpdate => db.seq < MaxSeq

\* a command that does not wait for the owner of the connection
lock_db_no_wait(t) ==
  /\ fg[t].pc = "call"
  /\ \E p \in Payloads(fg[t].op) :
       /\ Room(fg[t].op, p.data)
       /\ fg' = [fg EXCEPT ![t].pc = "locked", ![t].note = p.note,
                           ![t].data = p.data, ![t].pre = db]
  /\ lock' = t
  /\ UNCHANGED <<db, journal, bg, fn, now>>

\* state.db.lock() / lock_db(db) returns the guard; the payload is read
lock_db(t) ==
  /\ fg[t].pc = "call"
  /\ MutexFree
  /\ \E p \in Payloads(fg[t].op) :
       /\ Room(fg[t].op, p.data)
       /\ fg' = [fg EXCEPT ![t].pc = "locked", ![t].note = p.note,
                           ![t].data = p.data, ![t].pre = db]
  /\ lock' = t
  /\ UNCHANGED <<db, journal, bg, fn, now>>

\* the command has its result; the MutexGuard is still in scope
Finish(t, res) ==
  /\ lock' = lock
  /\ fg' = [fg EXCEPT ![t].pc = "ret", ![t].res = res]

\* a Transaction dropped without commit rolls back
Rollback == IF journal = NoTx THEN db ELSE journal[1]

notes_save_yjs_update(t) ==
  /\ fg[t].pc = "locked" /\ fg[t].op = "save"
  /\ IF ForeignKeyOk(db, fg[t].note)
     THEN db' = InsertUpdate(db, fg[t].note, fg[t].data) /\ Finish(t, Ok(<<>>))
     ELSE db' = db /\ Finish(t, Err)
  /\ UNCHANGED <<journal, bg, fn, now>>

\* a load whose query orders the newest update first
notes_load_yjs_updates_newest_first(t) ==
  /\ fg[t].pc = "locked" /\ fg[t].op = "load"
  /\ LET out == load_yjs_updates_for_note(db, fg[t].note)
     IN  Finish(t, Ok([i \in 1..Len(out) |-> out[Len(out) + 1 - i]]))
  /\ UNCHANGED <<db, journal, bg, fn, now>>

notes_load_yjs_updates(t) ==
  /\ fg[t].pc = "locked" /\ fg[t].op = "load"
  /\ Finish(t, Ok(load_yjs_updates_for_note(db, fg[t].note)))
  /\ UNCHANGED <<db, journal, bg, fn, now>>

\* the DELETE outside of a transaction: it is committed on its own
notes_replace_yjs_updates_delete_autocommit(t) ==
  /\ fg[t].pc = "locked" /\ fg[t].op = "replace"
  /\ journal' = NoTx
  /\ db' = DeleteUpdates(db, fg[t].note)
  /\ fg' = [fg EXCEPT ![t].pc = "deleted"]
  /\ UNCHANGED <<lock, bg, fn, now>>

\* conn.transaction() and DELETE FROM yjs_updates WHERE note_id = ?1
notes_replace_yjs_updates_delete(t) ==
  /\ fg[t].pc = "locked" /\ fg[t].op = "replace"
  /\ journal' = <<db>>
  /\ db' = DeleteUpdates(db, fg[t].note)
  /\ fg' = [fg EXCEPT ![t].pc = "deleted"]
  /\ UNCHANGED <<lock, bg, fn, now>>

\* an INSERT whose note_id parameter is bound to another note
notes_replace_yjs_updates_insert_other_note(t) ==
  /\ fg[t].pc = "deleted" /\ fg[t].op = "replace"
  /\ IF ForeignKeyOk(db, fg[t].note)
     THEN /\ db' = InsertUpdate(db, (fg[t].note % MaxNotes) + 1, fg[t].data)
          /\ fg' = [fg EXCEPT ![t].pc = "inserted"]
          /\ UNCHANGED <<journal, lock>>
     ELSE /\ db' = Rollback
          /\ journal' = NoTx
          /\ Finish(t, Err)
  /\ UNCHANGED <<bg, fn, now>>

\* INSERT INTO yjs_updates; a foreign key failure returns through `?`
notes_replace_yjs_updates_insert(t) ==
  /\ fg[t].pc = "deleted" /\ fg[t].op = "replace"
  /\ IF ForeignKeyOk(db, fg[t].note)
     THEN /\ db' = InsertUpdate(db, fg[t].note, fg[t].data)
          /\ fg' = [fg EXCEPT ![t].pc = "inserted"]
          /\ UNCHANGED <<journal, lock>>
     ELSE /\ db' = Rollback
          /\ journal' = NoTx
          /\ Finish(t, Err)
  /\ UNCHANGED <<bg, fn, now>>

\* a commit that puts back the fragments the new bytes do not cover
notes_replace_yjs_updates_commit_keep_uncovered(t) ==
  /\ fg[t].pc = "inserted" /\ fg[t].op = "replace"
  /\ journal' = NoTx
  /\ db' = [db EXCEPT !.rows = @ \cup {r \in NoteRows(journal[1], fg[t].note) :
                                         ~ /\ r.data.ins \subseteq fg[t].data.ins
                                           /\ r.data.del \subseteq fg[t].data.del}]
  /\ Finish(t, Ok(<<>>))
  /\ UNCHANGED <<bg, fn, now>>

\* tx.commit()
notes_replace_yjs_updates_commit(t) ==
  /\ fg[t].pc = "inserted" /\ fg[t].op = "replace"
  /\ journal' = NoTx
  /\ Finish(t, Ok(<<>>))
  /\ UNCHANGED <<db, bg, fn, now>>

\* the INSERT INTO notes run on the connection, outside the transaction
createNote_insert_note_autocommit(t) ==
  /\ fg[t].pc = "locked" /\ fg[t].op = "createNote"
  /\ journal' = journal
  /\ db' = InsertNote(db, NewTitle, NewIcon, now)
  /\ fg' = [fg EXCEPT ![t].pc = "note_inserted", ![t].note = NextNoteId(db)]
  /\ UNCHANGED <<lock, bg, fn, now>>

\* notes.createNote: conn.transaction() and INSERT INTO notes
createNote_insert_note(t) ==
  /\ fg[t].pc = "locked" /\ fg[t].op = "createNote"
  /\ journal' = <<db>>
  /\ db' = InsertNote(db, NewTitle, NewIcon, now)
  /\ fg' = [fg EXCEPT ![t].pc = "note_inserted", ![t].note = NextNoteId(db)]
  /\ UNCHANGED <<lock, bg, fn, now>>

\* notes.createNote: the first fragment, when initialContent is not empty
createNote_insert_update(t) ==
  /\ fg[t].pc = "note_inserted" /\ fg[t].op = "createNote"
  /\ db' = IF fg[t].data # NoUpdate
           THEN InsertUpdate(db, fg[t].note, fg[t].data) ELSE db
  /\ fg' = [fg EXCEPT ![t].pc = "inserted"]
  /\ UNCHANGED <<journal, lock, bg, fn, now>>

\* notes.createNote: tx.commit() and fetch_note_row
createNote_commit(t) ==
  /\ fg[t].pc = "inserted" /\ fg[t].op = "createNote"
  /\ journal' = NoTx
  /\ Finish(t, Ok(<<>>))
  /\ UNCHANGED <<db, bg, fn, now>>

\* notes.deleteNote
deleteNote(t) ==
  /\ fg[t].pc = "locked" /\ fg[t].op = "deleteNote"
  /\ IF fg[t].note \in db.notes
     THEN db' = DeleteNote(db, fg[t].note) /\ Finish(t, Ok(<<>>))
     ELSE db' = db /\ Finish(t, Err)
  /\ UNCHANGED <<journal, bg, fn, now>>

\* the webview types into a note, renames it or changes its icon
EditCommands == {"save", "updateNoteTitle", "updateNoteIcon"}

InvokeEdit(t) ==
  /\ fg[t].pc = "idle"
  /\ \E op \in EditCommands :
       fg' = [fg EXCEPT ![t] = [pc |-> "call", op |-> op, note |-> 0,
                                data |-> NoUpdate, res |-> Err,
                                pre |-> init_database]]
  /\ UNCHANGED <<db, journal, lock, bg, fn, now>>

\* notes.updateNoteTitle
updateNoteTitle(t) ==
  /\ fg[t].pc = "locked" /\ fg[t].op = "updateNoteTitle"
  /\ \E title \in Titles :
       IF fg[t].note \in db.notes
       THEN db' = UpdateTitle(db, fg[t].note, title, now) /\ Finish(t, Ok(<<>>))
       ELSE db' = db /\ Finish(t, Err)
  /\ UNCHANGED <<journal, bg, fn, now>>

\* notes.updateNoteIcon
updateNoteIcon(t) ==
  /\ fg[t].pc = "locked" /\ fg[t].op = "updateNoteIcon"
  /\ \E icon \in Icons :
       IF fg[t].note \in db.notes
       THEN db' = UpdateIcon(db, fg[t].note, icon, now) /\ Finish(t, Ok(<<>>))
       ELSE db' = db /\ Finish(t, Err)
  /\ UNCHANGED <<journal, bg, fn, now>>

\* a second passes
Tick ==
  /\ now < MaxTime
  /\ now' = now + 1
  /\ UNCHANGED <<db, journal, lock, fg, bg, fn>>

\* an error return that leaves the statements already run in place
StorageError_no_rollback(t) ==
  /\ fg[t].pc \in {"locked", "deleted", "inserted", "note_inserted"}
  /\ db' = db
  /\ journal' = NoTx
  /\ Finish(t, Err)
  /\ UNCHANGED <<bg, fn, now>>

\* any prepare/execute/commit can fail in the storage layer: `?` returns the
\* error, the open transaction rolls back, the guard is dropped
StorageError(t) ==
  /\ fg[t].pc \in {"locked", "deleted", "inserted", "note_inserted"}
  /\ db' = Rollback
  /\ journal' = NoTx
  /\ Finish(t, Err)
  /\ UNCHANGED <<bg, fn, now>>

\* a return that gives the lock back only after a success
Return_unlock_on_success(t) ==
  /\ fg[t].pc = "ret"
  /\ lock' = IF fg[t].res.ok THEN Free ELSE lock
  /\ fg' = [fg EXCEPT ![t] = Idle]
  /\ UNCHANGED <<db, journal, bg, fn, now>>

\* the command returns: the MutexGuard is dropped, the caller has the result
Return(t) ==
  /\ fg[t].pc = "ret"
  /\ lock' = Free
  /\ fg' = [fg EXCEPT ![t] = Idle]
  /\ UNCHANGED <<db, journal, bg, fn, now>>

(***************************************************************************)
(* Background: spawn_compaction_task, one sweep per wake-up.               *)
(***************************************************************************)
Report(note, before, after, ok) ==
  [note |-> note, before |-> before, after |-> after, ok |-> ok]

\* the error of one note ends the loop
LogFailure_abort(b, note, n) ==
  [b EXCEPT !.pc = "loop", !.note = note, !.failed = @ \cup {note},
            !.queue = <<>>, !.updates = <<>>, !.compacted = NoUpdate,
            !.last = Report(note, n, n, FALSE)]

\* compact_all_notes: eprintln!("Failed to compact note ..."), next note
LogFailure(b, note, n) ==
  [b EXCEPT !.pc = "loop", !.note = note, !.failed = @ \cup {note},
            !.updates = <<>>, !.compacted = NoUpdate,
            !.last = Report(note, n, n, FALSE)]

\* a threshold that lets a single fragment through
NothingToMerge_only_empty(n) == n < 1

\* compact_note_updates: if updates_before <= 1 { return Ok(..) }
NothingToMerge(n) == n <= 1

\* a sweep that does not wait for the owner of the connection
compaction_lock_no_wait ==
  /\ bg.pc = "sleep"
  /\ lock' = BgThread
  /\ bg' = [bg EXCEPT !.pc = "listing"]
  /\ UNCHANGED <<db, journal, fg, fn, now>>

\* thread::sleep is over and state.db.lock() returns
compaction_lock ==
  /\ bg.pc = "sleep"
  /\ MutexFree
  /\ lock' = BgThread
  /\ bg' = [bg EXCEPT !.pc = "listing"]
  /\ UNCHANGED <<db, journal, fg, fn, now>>

\* a listing made under a lock of its own, given back before the loop
compact_all_notes_list_unlock ==
  /\ bg.pc = "listing"
  /\ lock' = Free
  /\ bg' = [bg EXCEPT !.pc = "loop", !.queue = get_unique_note_ids(db)]
  /\ UNCHANGED <<db, journal, fg, fn, now>>

\* compact_all_notes: let note_ids = get_unique_note_ids(conn)?
compact_all_notes_list ==
  /\ bg.pc = "listing"
  /\ bg' = [bg EXCEPT !.pc = "loop", !.queue = get_unique_note_ids(db)]
  /\ UNCHANGED <<db, journal, lock, fg, fn, now>>

\* a listing error that leaves the thread closure: the loop is over
compact_all_notes_list_error_exit ==
  /\ bg.pc = "listing"
  /\ lock' = Free
  /\ bg' = [bg EXCEPT !.pc = "exited", !.last = Report(0, 0, 0, FALSE)]
  /\ UNCHANGED <<db, journal, fg, fn, now>>

\* compact_all_notes: get_unique_note_ids failed, `?` ends the sweep
compact_all_notes_list_error ==
  /\ bg.pc = "listing"
  /\ bg' = [bg EXCEPT !.pc = "swept", !.last = Report(0, 0, 0, FALSE)]
  /\ UNCHANGED <<db, journal, lock, fg, fn, now>>

\* a loop that steps over the updates it cannot decode and merges the rest
compact_note_updates_squash_skip ==
  /\ bg.pc = "loop" /\ bg.queue # <<>>
  /\ LET note == Head(bg.queue)
         updates == load_yjs_updates_for_note(db, note)
         n == Len(updates)
         sq == Squash(SelectSeq(updates, decode_v1))
         b == [bg EXCEPT !.queue = Tail(@)]
     IN  bg' =
           IF NothingToMerge(n)
           THEN [b EXCEPT !.note = note, !.last = Report(note, n, n, TRUE)]
           ELSE [b EXCEPT !.pc = "squashed", !.note = note,
                          !.updates = updates, !.compacted = sq.bytes]
  /\ UNCHANGED <<db, journal, lock, fg, fn, now>>

\* compact_note_updates up to the call of replace_yjs_updates_for_note
compact_note_updates_squash ==
  /\ bg.pc = "loop" /\ bg.queue # <<>>
  /\ LET note == Head(bg.queue)
         updates == load_yjs_updates_for_note(db, note)
         n == Len(updates)
         sq == Squash(updates)
         b == [bg EXCEPT !.queue = Tail(@)]
     IN  bg' =
           IF NothingToMerge(n)
           THEN [b EXCEPT !.note = note, !.last = Report(note, n, n, TRUE)]
           ELSE IF ~sq.ok
           THEN LogFailure(b, note, n)
           ELSE [b EXCEPT !.pc = "squashed", !.note = note,
                          !.updates = updates, !.compacted = sq.bytes]
  /\ UNCHANGED <<db, journal, lock, fg, fn, now>>

\* a DELETE that removes only the oldest update of the note
replace_yjs_updates_for_note_delete_oldest ==
  /\ bg.pc = "squashed"
  /\ journal' = <<db>>
  /\ db' = [db EXCEPT !.rows = @ \ {r \in NoteRows(db, bg.note) :
                                      \A q \in NoteRows(db, bg.note) : r.id <= q.id}]
  /\ bg' = [bg EXCEPT !.pc = "deleted"]
  /\ UNCHANGED <<lock, fg, fn, now>>

\* replace_yjs_updates_for_note: conn.transaction() and the DELETE
replace_yjs_updates_for_note_delete ==
  /\ bg.pc = "squashed"
  /\ journal' = <<db>>
  /\ db' = DeleteUpdates(db, bg.note)
  /\ bg' = [bg EXCEPT !.pc = "deleted"]
  /\ UNCHANGED <<lock, fg, fn, now>>

\* an INSERT that is given the last loaded update instead of the compacted one
replace_yjs_updates_for_note_insert_last ==
  /\ bg.pc = "deleted"
  /\ db' = InsertUpdate(db, bg.note, bg.updates[Len(bg.updates)])
  /\ bg' = [bg EXCEPT !.pc = "inserted"]
  /\ UNCHANGED <<journal, lock, fg, fn, now>>

\* replace_yjs_updates_for_note: the INSERT
replace_yjs_updates_for_note_insert ==
  /\ bg.pc = "deleted"
  /\ IF ForeignKeyOk(db, bg.note)
     THEN /\ db' = InsertUpdate(db, bg.note, bg.compacted)
          /\ bg' = [bg EXCEPT !.pc = "inserted"]
          /\ UNCHANGED journal
     ELSE /\ db' = Rollback
          /\ journal' = NoTx
          /\ bg' = LogFailure(bg, bg.note, Len(bg.updates))
  /\ UNCHANGED <<lock, fg, fn, now>>

\* a commit that also stamps the note as updated
replace_yjs_updates_for_note_commit_touch ==
  /\ bg.pc = "inserted"
  /\ journal' = NoTx
  /\ db' = UpdateTitle(db, bg.note, db.meta[bg.note].title, now)
  /\ bg' = [bg EXCEPT !.pc = "loop", !.updates = <<>>, !.compacted = NoUpdate,
                      !.last = Report(bg.note, Len(bg.updates), 1, TRUE)]
  /\ UNCHANGED <<lock, fg, fn, now>>

\* replace_yjs_updates_for_note: tx.commit(); compact_note_updates returns
replace_yjs_updates_for_note_commit ==
  /\ bg.pc = "inserted"
  /\ journal' = NoTx
  /\ bg' = [bg EXCEPT !.pc = "loop", !.updates = <<>>, !.compacted = NoUpdate,
                      !.last = Report(bg.note, Len(bg.updates), 1, TRUE)]
  /\ UNCHANGED <<db, lock, fg, fn, now>>

\* a failed compaction whose transaction is not rolled back
compact_note_updates_error_no_rollback ==
  /\ \/ /\ bg.pc \in {"squashed", "deleted", "inserted"}
        /\ bg' = LogFailure(bg, bg.note, Len(bg.updates))
     \/ /\ bg.pc = "loop" /\ bg.queue # <<>>
        /\ bg' = LogFailure([bg EXCEPT !.queue = Tail(@)], Head(bg.queue), 0)
  /\ db' = db
  /\ journal' = NoTx
  /\ UNCHANGED <<lock, fg, fn, now>>

\* a statement of compact_note_updates fails in the storage layer
compact_note_updates_error ==
  /\ \/ /\ bg.pc \in {"squashed", "deleted", "inserted"}
        /\ bg' = LogFailure(bg, bg.note, Len(bg.updates))
     \/ /\ bg.pc = "loop" /\ bg.queue # <<>>
        /\ bg' = LogFailure([bg EXCEPT !.queue = Tail(@)], Head(bg.queue), 0)
  /\ db' = Rollback
  /\ journal' = NoTx
  /\ UNCHANGED <<lock, fg, fn, now>>

\* a sweep that may return while notes are left to visit
compact_all_notes_return_any_time ==
  /\ bg.pc = "loop"
  /\ bg' = [bg EXCEPT !.pc = "swept", !.queue = <<>>]
  /\ UNCHANGED <<db, journal, lock, fg, fn, now>>

\* compact_all_notes returns Ok(())
compact_all_notes_return ==
  /\ bg.pc = "loop" /\ bg.queue = <<>>
  /\ bg' = [bg EXCEPT !.pc = "swept"]
  /\ UNCHANGED <<db, journal, lock, fg, fn, now>>

\* a loop that starts its next wait while the work list is not empty
compaction_unlock_early ==
  /\ bg.pc \in {"loop", "swept"}
  /\ journal = NoTx
  /\ lock' = Free
  /\ bg' = BgSleep
  /\ UNCHANGED <<db, journal, fg, fn, now>>

\* the guard goes out of scope, the loop sleeps again
compaction_unlock ==
  /\ bg.pc = "swept"
  /\ lock' = Free
  /\ bg' = BgSleep
  /\ UNCHANGED <<db, journal, fg, fn, now>>

(***************************************************************************)
(* The process is killed and started again: the threads are gone, the     *)
(* database file holds what was committed.                                 *)
(***************************************************************************)
Crash ==
  /\ db' = Rollback
  /\ journal' = NoTx
  /\ lock' = Free
  /\ fg' = [t \in Fg |-> Idle]
  /\ bg' = BgSleep
  /\ UNCHANGED <<fn, now>>

FgStep(t) ==
  \/ Invoke(t)
  \/ lock_db(t)
  \/ notes_save_yjs_update(t)
  \/ notes_load_yjs_updates(t)
  \/ notes_replace_yjs_updates_delete(t)
  \/ notes_replace_yjs_updates_insert(t)
  \/ notes_replace_yjs_updates_commit(t)
  \/ createNote_insert_note(t)
  \/ createNote_insert_update(t)
  \/ createNote_commit(t)
  \/ deleteNote(t)
  \/ StorageError(t)
  \/ Return(t)

BgStep ==
  \/ compaction_lock
  \/ compact_all_notes_list
  \/ compact_all_notes_list_error
  \/ compact_note_updates_squash
  \/ replace_yjs_updates_for_note_delete
  \/ replace_yjs_updates_for_note_insert
  \/ replace_yjs_updates_for_note_commit
  \/ compact_note_updates_error
  \/ compact_all_notes_return
  \/ compaction_unlock

Next ==
  \/ \E t \in Fg : FgStep(t)
  \/ BgStep
  \/ Crash

Spec == Init /\ [][Next]_vars

(***************************************************************************)
(* The Document Reconstructor on its own: Squash of any short list of      *)
(* fragments, decodable or not.                                            *)
(***************************************************************************)
InitSquash ==
  /\ db = init_database
  /\ journal = NoTx
  /\ lock = Free
  /\ fg = [t \in Fg |-> Idle]
  /\ bg = BgSleep
  /\ \E fs \in SeqsUpTo(Update \cup {Corrupt}, MaxLen) :
       fn = [NoFn EXCEPT !.frags = fs]
  /\ now = 0

DoSquash ==
  /\ ~fn.done
  /\ fn' = [fn EXCEPT !.squashed = Squash(fn.frags),
                      !.error = SquashError(fn.frags), !.done = TRUE]
  /\ UNCHANGED <<db, journal, lock, fg, bg, now>>

NextSquash == DoSquash

SpecSquash == InitSquash /\ [][NextSquash]_vars

(***************************************************************************)
(* The sweep over a database that earlier runs have filled: SweepNotes     *)
(* notes, each with up to MaxStored fragments an editor has appended.      *)
(***************************************************************************)
RECURSIVE Offset(_, _)
Offset(f, n) == IF n = 1 THEN 0 ELSE Offset(f, n - 1) + Len(f[n - 1])

StoreOf(f) ==
  [rows |-> {[id |-> Offset(f, n) + i, note |-> n, data |-> f[n][i]] :
               <<n, i>> \in {x \in (1..SweepNotes) \X (1..MaxStored) :
                              x[2] <= Len(f[x[1]])}},
   seq |-> Offset(f, SweepNotes + 1),
   notes |-> 1..SweepNotes,
   noteSeq |-> SweepNotes,
   meta |-> [n \in 1..SweepNotes |-> NoteRow(NewTitle, NewIcon, 0)]]

\* the databases in which the first `filled` notes hold fragments
Stores(filled) ==
  {StoreOf([n \in 1..SweepNotes |-> IF n <= filled THEN g[n] ELSE <<>>]) :
     g \in [1..filled -> SeqsUpTo(EditorUpdates, MaxStored)]}

InitSweep ==
  /\ db \in Stores(SweepNotes)
  /\ journal = NoTx
  /\ lock = Free
  /\ fg = [t \in Fg |-> Idle]
  /\ bg = BgSleep
  /\ fn = NoFn
  /\ now = 0

NextSweep == BgStep \/ Crash

SpecSweep == InitSweep /\ [][NextSweep]_vars

(***************************************************************************)
(* compact_note_updates on its own: one call for any note of such a        *)
(* database, with the connection locked by the caller.                     *)
(***************************************************************************)
InitCompactOne ==
  /\ db \in Stores(SweepNotes)
  /\ journal = NoTx
  /\ lock = BgThread
  /\ fg = [t \in Fg |-> Idle]
  /\ \E n \in 1..SweepNotes : bg = [BgSleep EXCEPT !.pc = "loop", !.queue = <<n>>]
  /\ fn = NoFn
  /\ now = 0

NextCompactOne ==
  \/ compact_note_updates_squash
  \/ replace_yjs_updates_for_note_delete
  \/ replace_yjs_updates_for_note_insert
  \/ replace_yjs_updates_for_note_commit
  \/ compact_note_updates_error

SpecCompactOne == InitCompactOne /\ [][NextCompactOne]_vars

(***************************************************************************)
(* The notes table next to the update log: a note exists, one webview     *)
(* thread renames it and types into it while the clock runs and the sweep *)
(* compacts.                                                               *)
(***************************************************************************)
InitMeta ==
  /\ db = [init_database EXCEPT
             !.notes = {1}, !.noteSeq = 1,
             !.meta = [n \in {1} |-> NoteRow(NewTitle, NewIcon, 0)]]
  /\ journal = NoTx
  /\ lock = Free
  /\ fg = [t \in Fg |-> Idle]
  /\ bg = BgSleep
  /\ fn = NoFn
  /\ now = 0

NextMeta ==
  \/ InvokeEdit("f1")
  \/ lock_db("f1")
  \/ notes_save_yjs_update("f1")
  \/ updateNoteTitle("f1")
  \/ updateNoteIcon("f1")
  \/ Return("f1")
  \/ BgStep
  \/ Tick

SpecMeta == InitMeta /\ [][NextMeta]_vars

(***************************************************************************)
(* duration_until_next_2am on its own.  Time is counted in hours.  A local *)
(* day is plain, or the clock is put forward over 02:00 (the hour from     *)
(* 02:00 to 03:00 does not exist), or it is put back to 02:00 (the hour    *)
(* from 02:00 to 03:00 comes twice).  An instant is the number of hours    *)
(* since the first midnight of the calendar.                               *)
(***************************************************************************)
DayKinds == {"plain", "forward", "back"}

\* what the local clock shows, hour after hour, on a day
Hours(kind) ==
  CASE kind = "forward" -> <<0, 1>> \o [i \in 1..21 |-> i + 2]
    [] kind = "back" -> <<0, 1, 2>> \o [i \in 1..22 |-> i + 1]
    [] OTHER -> [i \in 1..24 |-> i - 1]

\* the instant at which day d of calendar k begins
RECURSIVE DayStart(_, _)
DayStart(k, d) ==
  IF d = 1 THEN 0 ELSE DayStart(k, d - 1) + Len(Hours(k[d - 1]))

Instants(k) == 0..(DayStart(k, Len(k) + 1) - 1)

\* Local: the date and the hour of the local clock at an instant
year_month_day(k, i) ==
  CHOOSE d \in 1..Len(k) : DayStart(k, d) <= i /\ i < DayStart(k, d + 1)

hour(k, i) == Hours(k[year_month_day(k, i)])[i - DayStart(k, year_month_day(k, i)) + 1]

\* Local.with_ymd_and_hms(y, m, d, h, 0, 0): the instants at which the local
\* clock shows that date and hour: none, one or two
with_ymd_and_hms(k, d, h) ==
  {i \in Instants(k) : year_month_day(k, i) = d /\ hour(k, i) = h}

\* .single().unwrap_or(other)
single_unwrap_or(S, other) ==
  IF Cardinality(S) = 1 THEN CHOOSE i \in S : TRUE ELSE other

duration_until_next_2am(k, at) ==
  LET today_two ==
        single_unwrap_or(with_ymd_and_hms(k, year_month_day(k, at), 2), at)
      next == IF at < today_two THEN today_two
              ELSE LET tomorrow == at + 24
                   IN  single_unwrap_or(
                         with_ymd_and_hms(k, year_month_day(k, tomorrow), 2), tomorrow)
  IN  IF next - at < 0 THEN 0 ELSE next - at

\* the thread computes its wait at any hour of the first day of a calendar
InitWait ==
  /\ db = init_database
  /\ journal = NoTx
  /\ lock = Free
  /\ fg = [t \in Fg |-> Idle]
  /\ bg = BgSleep
  /\ now = 0
  /\ \E k \in [1..CalendarDays -> DayKinds] :
       \E at \in 0..(DayStart(k, 2) - 1) :
         fn = [days |-> k, at |-> at, sleep_for |-> 0, done |-> FALSE]

DoWait ==
  /\ ~fn.done
  /\ fn' = [fn EXCEPT !.sleep_for = duration_until_next_2am(fn.days, fn.at),
                      !.done = TRUE]
  /\ UNCHANGED <<db, journal, lock, fg, bg, now>>

NextWait == DoWait

SpecWait == InitWait /\ [][NextWait]_vars

(***************************************************************************)
(* Appends on top of a replace: note 1 had no or one fragment, thread f1   *)
(* has replaced them and is about to return; from then on both webview     *)
(* threads append to the note and load it.  fn.frags keeps the bytes of    *)
(* the replace.                                                            *)
(***************************************************************************)
InitOnTop ==
  \E old \in SeqsUpTo(EditorUpdates, 1), data \in EditorUpdates :
    LET empty == [init_database EXCEPT
                    !.notes = {1}, !.noteSeq = 1,
                    !.meta = [n \in {1} |-> NoteRow(NewTitle, NewIcon, 0)]]
        before == IF old = <<>> THEN empty ELSE InsertUpdate(empty, 1, old[1])
    IN  /\ db = InsertUpdate(DeleteUpdates(before, 1), 1, data)
        /\ journal = NoTx
        /\ lock = "f1"
        /\ fg = [t \in Fg |->
                   IF t = "f1"
                   THEN [pc |-> "ret", op |-> "replace", note |-> 1,
                         data |-> data, res |-> Ok(<<>>), pre |-> before]
                   ELSE Idle]
        /\ bg = BgSleep
        /\ fn = [NoFn EXCEPT !.frags = <<data>>]
        /\ now = 0

\* a call that gives up at once when the lock is taken: try_lock
InvokeAppend_try_lock(t) ==
  /\ fg[t].pc = "idle"
  /\ \E op \in {"save", "load"} :
       fg' = [fg EXCEPT ![t] = [pc |-> IF MutexFree THEN "call" ELSE "ret",
                                op |-> op, note |-> 0,
                                data |-> NoUpdate, res |-> Err,
                                pre |-> init_database]]
  /\ UNCHANGED <<db, journal, lock, bg, fn, now>>

InvokeAppend(t) ==
  /\ fg[t].pc = "idle"
  /\ \E op \in {"save", "load"} :
       fg' = [fg EXCEPT ![t] = [pc |-> "call", op |-> op, note |-> 0,
                                data |-> NoUpdate, res |-> Err,
                                pre |-> init_database]]
  /\ UNCHANGED <<db, journal, lock, bg, fn, now>>

NextOnTop ==
  \E t \in Fg :
    \/ InvokeAppend(t)
    \/ lock_db(t)
    \/ notes_save_yjs_update(t)
    \/ notes_load_yjs_updates(t)
    \/ StorageError(t)
    \/ Return(t)

SpecOnTop == InitOnTop /\ [][NextOnTop]_vars

(***************************************************************************)
(* A replace with a stale snapshot: thread f1 has loaded note 1, which had *)
(* no or one fragment, and has returned; thread f2 has appended a fragment *)
(* since and is about to return.  From then on f1 replaces and loads, f2   *)
(* appends and loads.  fn.frags keeps what f1 loaded.                      *)
(***************************************************************************)
InitStale ==
  \E old \in SeqsUpTo(EditorUpdates, 1), data \in EditorUpdates :
    LET empty == [init_database EXCEPT
                    !.notes = {1}, !.noteSeq = 1,
                    !.meta = [n \in {1} |-> NoteRow(NewTitle, NewIcon, 0)]]
        before == IF old = <<>> THEN empty ELSE InsertUpdate(empty, 1, old[1])
    IN  /\ db = InsertUpdate(before, 1, data)
        /\ journal = NoTx
        /\ lock = "f2"
        /\ fg = [t \in Fg |->
                   IF t = "f2"
                   THEN [pc |-> "ret", op |-> "save", note |-> 1,
                         data |-> data, res |-> Ok(<<>>), pre |-> before]
                   ELSE Idle]
        /\ bg = BgSleep
        /\ fn = [NoFn EXCEPT !.frags = load_yjs_updates_for_note(before, 1)]
        /\ now = 0

InvokeStale(t) ==
  /\ fg[t].pc = "idle"
  /\ \E op \in IF t = "f1" THEN {"replace", "load"} ELSE {"save", "load"} :
       fg' = [fg EXCEPT ![t] = [pc |-> "call", op |-> op, note |-> 0,
                                data |-> NoUpdate, res |-> Err,
                                pre |-> init_database]]
  /\ UNCHANGED <<db, journal, lock, bg, fn, now>>

NextStale ==
  \E t \in Fg :
    \/ InvokeStale(t)
    \/ lock_db(t)
    \/ notes_save_yjs_update(t)
    \/ notes_load_yjs_updates(t)
    \/ notes_replace_yjs_updates_delete(t)
    \/ notes_replace_yjs_updates_insert(t)
    \/ notes_replace_yjs_updates_commit(t)
    \/ StorageError(t)
    \/ Return(t)

SpecStale == InitStale /\ [][NextStale]_vars

(***************************************************************************)
(* The compaction thread and one webview thread under fair scheduling:     *)
(* notes 1 and 2 hold up to MaxStored fragments each, thread f1 appends    *)
(* and loads, no statement fails in the storage layer and the process is   *)
(* not killed.  Every command that has the lock runs to its return, every  *)
(* step of the sweep is taken, and the thread that wakes up gets the lock  *)
(* if the lock is free again and again.                                    *)
(***************************************************************************)
InitFair ==
  /\ db \in Stores(2)
  /\ journal = NoTx
  /\ lock = Free
  /\ fg = [t \in Fg |-> Idle]
  /\ bg = BgSleep
  /\ fn = NoFn
  /\ now = 0

\* the steps of a command of f1 that has been called
FgRun ==
  \/ lock_db("f1")
  \/ notes_save_yjs_update("f1")
  \/ notes_load_yjs_updates("f1")
  \/ Return("f1")

\* the steps of a sweep that has the lock
SweepRun ==
  \/ compact_all_notes_list
  \/ compact_note_updates_squash
  \/ replace_yjs_updates_for_note_delete
  \/ replace_yjs_updates_for_note_insert
  \/ replace_yjs_updates_for_note_commit
  \/ compact_all_notes_return
  \/ compaction_unlock

NextFair ==
  \/ InvokeAppend("f1")
  \/ FgRun
  \/ compaction_lock
  \/ SweepRun

\* compact_note_updates_squash can be taken exactly when a note is left to
\* visit: its other conjuncts give bg a new value, with a shorter queue
SquashEnabled == bg.pc = "loop" /\ bg.queue # <<>>

\* WF_vars(compact_note_updates_squash), with ENABLED written as its guard
SquashFair ==
  \/ []<>~SquashEnabled
  \/ []<><<compact_note_updates_squash>>_vars

SpecFair ==
  /\ InitFair /\ [][NextFair]_vars
  /\ WF_vars(FgRun)
  /\ SF_vars(compaction_lock)
  /\ WF_vars(compact_all_notes_list)
  /\ SquashFair
  /\ WF_vars(replace_yjs_updates_for_note_delete)
  /\ WF_vars(replace_yjs_updates_for_note_insert)
  /\ WF_vars(replace_yjs_updates_for_note_commit)
  /\ WF_vars(compact_all_notes_return)
  /\ WF_vars(compaction_unlock)

(***************************************************************************)
(* The same two threads with statements that fail in the storage layer,    *)
(* in the command and in the sweep.  Every step of a sweep, failing or     *)
(* not, is taken; a command that has the lock runs to its return; and a    *)
(* command that waits gets the lock if the lock is free again and again.   *)
(***************************************************************************)
\* the steps of a sweep other than compact_note_updates_squash; one of them
\* can be taken at every point of a sweep
SweepRest ==
  \/ compact_all_notes_list
  \/ compact_all_notes_list_error
  \/ replace_yjs_updates_for_note_delete
  \/ replace_yjs_updates_for_note_insert
  \/ replace_yjs_updates_for_note_commit
  \/ compact_note_updates_error
  \/ compact_all_notes_return
  \/ compaction_unlock

NextHandOff ==
  \/ InvokeAppend("f1")
  \/ FgRun
  \/ StorageError("f1")
  \/ compaction_lock
  \/ compact_note_updates_squash
  \/ SweepRest

SpecHandOff ==
  /\ InitFair /\ [][NextHandOff]_vars
  /\ WF_vars(FgRun)
  /\ SF_vars(lock_db("f1"))
  /\ WF_vars(SweepRest)

(***************************************************************************)
(* The three mutexes of AppState that commands take: settings, db and      *)
(* recording.  A command is the sequence of its lock() calls and of the    *)
(* ends of the scopes of the guards.  The owner of db is the variable      *)
(* lock; fn keeps the owners of settings and recording and where every     *)
(* thread is in its command.                                               *)
(***************************************************************************)
LockThreads == Fg \cup {BgThread}

\* the commands by their use of the mutexes
LockCommands ==
  {"notes_yjs", "audio_data_chunk", "trpc_settings", "trpc_db",
   "trpc_signalStart", "trpc_signalStop", "trpc_signalStop_no_samples",
   "compaction"}

\* a fragment command that reads the settings while it has the connection
LockSteps_settings_inside(cmd) ==
  CASE cmd = "notes_yjs" ->
         <<<<"lock", "db">>, <<"lock", "settings">>,
           <<"drop", "settings">>, <<"drop", "db">>>>
    [] cmd = "compaction" -> <<<<"lock", "db">>, <<"drop", "db">>>>
    [] cmd = "audio_data_chunk" ->
         <<<<"lock", "recording">>, <<"drop", "recording">>>>
    [] cmd = "trpc_settings" ->
         <<<<"lock", "settings">>, <<"drop", "settings">>>>
    [] cmd = "trpc_db" ->
         <<<<"lock", "settings">>, <<"lock", "db">>,
           <<"drop", "db">>, <<"drop", "settings">>>>
    [] cmd = "trpc_signalStart" ->
         <<<<"lock", "settings">>, <<"lock", "recording">>,
           <<"drop", "recording">>, <<"drop", "settings">>>>
    [] cmd = "trpc_signalStop_no_samples" ->
         <<<<"lock", "settings">>, <<"lock", "recording">>,
           <<"drop", "recording">>, <<"drop", "settings">>>>
    [] cmd = "trpc_signalStop" ->
         <<<<"lock", "settings">>, <<"lock", "recording">>,
           <<"drop", "recording">>, <<"lock", "db">>,
           <<"drop", "db">>, <<"drop", "settings">>>>
    [] OTHER -> <<>>

\* notes_*_yjs_update* and the sweep: state.db.lock() alone;
\* audio_data_chunk: state.recording.lock() alone; trpc: state.settings
\* .lock(), then trpc_dispatch, where an arm calls lock_db(db) (notes.*,
\* transcriptions.*, vocabulary.*, settings.resetApp), recording.lock()
\* (recording.signalStart), or recording.lock() in a block of its own and
\* lock_db(db) after it (recording.signalStop, which returns before
\* lock_db when nothing was recorded); the other arms take no lock
LockSteps(cmd) ==
  CASE cmd \in {"notes_yjs", "compaction"} ->
         <<<<"lock", "db">>, <<"drop", "db">>>>
    [] cmd = "audio_data_chunk" ->
         <<<<"lock", "recording">>, <<"drop", "recording">>>>
    [] cmd = "trpc_settings" ->
         <<<<"lock", "settings">>, <<"drop", "settings">>>>
    [] cmd = "trpc_db" ->
         <<<<"lock", "settings">>, <<"lock", "db">>,
           <<"drop", "db">>, <<"drop", "settings">>>>
    [] cmd = "trpc_signalStart" ->
         <<<<"lock", "settings">>, <<"lock", "recording">>,
           <<"drop", "recording">>, <<"drop", "settings">>>>
    [] cmd = "trpc_signalStop_no_samples" ->
         <<<<"lock", "settings">>, <<"lock", "recording">>,
           <<"drop", "recording">>, <<"drop", "settings">>>>
    [] cmd = "trpc_signalStop" ->
         <<<<"lock", "settings">>, <<"lock", "recording">>,
           <<"drop", "recording">>, <<"lock", "db">>,
           <<"drop", "db">>, <<"drop", "settings">>>>
    [] OTHER -> <<>>

NoCommand == [cmd |-> "none", at |-> 0]

InitLocks ==
  /\ db = init_database
  /\ journal = NoTx
  /\ lock = Free
  /\ fg = [t \in Fg |-> Idle]
  /\ bg = BgSleep
  /\ fn = [settings |-> Free, recording |-> Free,
           run |-> [t \in LockThreads |-> NoCommand]]
  /\ now = 0

\* the owner of mutex l
Owner(l) == IF l = "db" THEN lock ELSE fn[l]

\* the lock() call or end of scope thread t has reached
StepOf(t) ==
  IF fn.run[t].at \in 1..Len(LockSteps(fn.run[t].cmd))
  THEN LockSteps(fn.run[t].cmd)[fn.run[t].at]
  ELSE <<"none", "none">>

\* the webview invokes a command on thread t; the compaction thread wakes
LockCall(t) ==
  /\ fn.run[t] = NoCommand
  /\ \E cmd \in IF t = BgThread THEN {"compaction"}
                 ELSE LockCommands \ {"compaction"} :
       fn' = [fn EXCEPT !.run[t] = [cmd |-> cmd, at |-> 1]]
  /\ UNCHANGED <<db, journal, lock, fg, bg, now>>

\* Mutex::lock returns the guard once no thread owns the mutex
LockTake(t) ==
  /\ StepOf(t)[1] = "lock"
  /\ Owner(StepOf(t)[2]) = Free
  /\ IF StepOf(t)[2] = "db"
     THEN /\ lock' = t
          /\ fn' = [fn EXCEPT !.run[t].at = @ + 1]
     ELSE /\ lock' = lock
          /\ fn' = [fn EXCEPT ![StepOf(t)[2]] = t, !.run[t].at = @ + 1]
  /\ UNCHANGED <<db, journal, fg, bg, now>>

\* the guard goes out of scope
LockDrop(t) ==
  /\ StepOf(t)[1] = "drop"
  /\ IF StepOf(t)[2] = "db"
     THEN /\ lock' = Free
          /\ fn' = [fn EXCEPT !.run[t].at = @ + 1]
     ELSE /\ lock' = lock
          /\ fn' = [fn EXCEPT ![StepOf(t)[2]] = Free, !.run[t].at = @ + 1]
  /\ UNCHANGED <<db, journal, fg, bg, now>>

\* the command returns
LockReturn(t) ==
  /\ fn.run[t].cmd # "none"
  /\ fn.run[t].at > Len(LockSteps(fn.run[t].cmd))
  /\ fn' = [fn EXCEPT !.run[t] = NoCommand]
  /\ UNCHANGED <<db, journal, lock, fg, bg, now>>

NextLocks ==
  \E t \in LockThreads :
    \/ LockCall(t)
    \/ LockTake(t)
    \/ LockDrop(t)
    \/ LockReturn(t)

SpecLocks == InitLocks /\ [][NextLocks]_vars

(***************************************************************************)
(* The modes of the settings.  The state is a list of modes as default     *)
(* settings and createMode calls have left it: the default mode followed   *)
(* by up to 19 modes of the user, any of them active; from there MaxCalls  *)
(* calls of setActiveMode, createMode, updateMode and deleteMode are made. *)
(* The mode id "default" is 0, a Uuid::new_v4() is the next unused         *)
(* positive number, and the empty string is -1.  fn keeps settings.modes   *)
(* and the last call with its result.                                      *)
(***************************************************************************)
\* createMode: if modes.items.len() >= 20
ModeLimit == 20

DefaultId == 0
EmptyId == 0 - 1

ModeNames == {"", "n", "m"}

\* build_fallback_mode
build_fallback_mode == [id |-> DefaultId, is_default |-> TRUE, name |-> "Default"]

\* get_modes_state: the stored list, or the fallback when it is empty
get_modes_state(modes) ==
  IF modes.items # <<>> THEN modes
  ELSE [items |-> <<build_fallback_mode>>, active_mode_id |-> DefaultId]

ModeIds(modes) == {modes.items[i].id : i \in 1..Len(modes.items)}

NoCall == [op |-> "none", mode_id |-> EmptyId, ok |-> TRUE]

\* SettingsState::with_defaults, and the lists k createMode calls and a
\* setActiveMode call make of it
InitModes ==
  /\ db = init_database
  /\ journal = NoTx
  /\ lock = Free
  /\ fg = [t \in Fg |-> Idle]
  /\ bg = BgSleep
  /\ now = 0
  /\ \E k \in 0..(ModeLimit - 1), a \in 0..(ModeLimit - 1) :
       /\ a <= k
       /\ fn = [modes |->
                  [items |-> [i \in 1..(k + 1) |->
                                IF i = 1 THEN build_fallback_mode
                                ELSE [id |-> i - 1, is_default |-> FALSE,
                                      name |-> "n"]],
                   active_mode_id |-> a],
                next |-> k + 1, calls |-> 0, last |-> NoCall]

\* the handler returns Err before settings.modes is assigned
Rejected(op, mode_id) ==
  /\ fn' = [fn EXCEPT !.calls = @ + 1,
                      !.last = [op |-> op, mode_id |-> mode_id, ok |-> FALSE]]
  /\ UNCHANGED <<db, journal, lock, fg, bg, now>>

\* settings.modes = Some(modes) and the handler returns Ok
Stored(op, mode_id, modes, next) ==
  /\ fn' = [fn EXCEPT !.modes = modes, !.next = next, !.calls = @ + 1,
                      !.last = [op |-> op, mode_id |-> mode_id, ok |-> TRUE]]
  /\ UNCHANGED <<db, journal, lock, fg, bg, now>>

\* the mode ids a caller may send: the default mode, the active mode, the
\* first and the last mode of the list, an id that is in no list, the
\* empty string
ModeIdInputs ==
  {DefaultId, fn.modes.active_mode_id, fn.next, EmptyId}
    \cup {fn.modes.items[i].id : i \in {2, Len(fn.modes.items)} \cap 1..Len(fn.modes.items)}

setActiveMode ==
  /\ fn.calls < MaxCalls
  /\ \E mode_id \in ModeIdInputs :
       LET modes == get_modes_state(fn.modes)
       IN  IF mode_id = EmptyId \/ mode_id \notin ModeIds(modes)
           THEN Rejected("setActiveMode", mode_id)
           ELSE Stored("setActiveMode", mode_id,
                       [modes EXCEPT !.active_mode_id = mode_id], fn.next)

createMode ==
  /\ fn.calls < MaxCalls
  /\ \E name \in ModeNames, parsed \in BOOLEAN :
       LET modes == get_modes_state(fn.modes)
           new_mode == [id |-> fn.next, is_default |-> FALSE, name |-> name]
       IN  IF name = "" \/ ~parsed \/ Len(modes.items) >= ModeLimit
           THEN Rejected("createMode", fn.next)
           ELSE Stored("createMode", fn.next,
                       [modes EXCEPT !.items = Append(@, new_mode)],
                       fn.next + 1)

updateMode ==
  /\ fn.calls < MaxCalls
  /\ \E mode_id \in ModeIdInputs, name \in ModeNames :
       LET modes == get_modes_state(fn.modes)
           index == CHOOSE i \in 1..Len(modes.items) :
                      /\ modes.items[i].id = mode_id
                      /\ \A j \in 1..(i - 1) : modes.items[j].id # mode_id
       IN  IF mode_id = EmptyId \/ mode_id \notin ModeIds(modes)
           THEN Rejected("updateMode", mode_id)
           ELSE Stored("updateMode", mode_id,
                       [modes EXCEPT !.items[index].name = name], fn.next)

\* a deleteMode that leaves the active mode id as it is
deleteMode_keep_active ==
  /\ fn.calls < MaxCalls
  /\ \E mode_id \in ModeIdInputs :
       LET modes == get_modes_state(fn.modes)
           found == {i \in 1..Len(modes.items) : modes.items[i].id = mode_id}
           keep(m) == m.id # mode_id
       IN  IF \/ mode_id = EmptyId
              \/ found = {}
              \/ \E i \in found : \A j \in found : i <= j /\ modes.items[i].is_default
              \/ Len(modes.items) <= 1
           THEN Rejected("deleteMode", mode_id)
           ELSE Stored("deleteMode", mode_id,
                       [items |-> SelectSeq(modes.items, keep),
                        active_mode_id |-> modes.active_mode_id],
                       fn.next)

deleteMode ==
  /\ fn.calls < MaxCalls
  /\ \E mode_id \in ModeIdInputs :
       LET modes == get_modes_state(fn.modes)
           found == {i \in 1..Len(modes.items) : modes.items[i].id = mode_id}
           keep(m) == m.id # mode_id
       IN  IF \/ mode_id = EmptyId
              \/ found = {}
              \/ \E i \in found : \A j \in found : i <= j /\ modes.items[i].is_default
              \/ Len(modes.items) <= 1
           THEN Rejected("deleteMode", mode_id)
           ELSE Stored("deleteMode", mode_id,
                       [items |-> SelectSeq(modes.items, keep),
                        active_mode_id |->
                          IF modes.active_mode_id = mode_id THEN DefaultId
                          ELSE modes.active_mode_id],
                       fn.next)

NextModes ==
  \/ setActiveMode
  \/ createMode
  \/ updateMode
  \/ deleteMode

SpecModes == InitModes /\ [][NextModes]_vars

(***************************************************************************)
(* Properties.                                                             *)
(***************************************************************************)
\* the content of update a is part of update b
Included(a, b) ==
  /\ a.ok /\ b.ok
  /\ a.ins \subseteq b.ins
  /\ a.del \subseteq b.del

\* every fragment of store d is in store e, as itself or inside a fragment
\* of the same note
NoFragmentLost(d, e) ==
  \A r \in d.rows :
    \/ r \in e.rows
    \/ \E q \in e.rows : q.note = r.note /\ Included(r.data, q.data)

SaveStep(t) == notes_save_yjs_update(t)

\* C1: no step of an append or of the background compaction loses a stored
\* fragment: every fragment on disk before the step is on disk after it, as
\* its own row or inside the compacted row of its note, and a successful
\* append has added its fragment.
C1_NoAppendLost ==
  [][ /\ ((\E t \in Fg : SaveStep(t)) \/ BgStep)
           => NoFragmentLost(Committed, Committed')
      /\ \A t \in Fg : (SaveStep(t) /\ fg'[t].res.ok) =>
           \E r \in Committed'.rows \ Committed.rows :
             r.note = fg[t].note /\ r.data = fg[t].data ]_vars

\* C1 witness: a compaction has replaced two or more fragments by one while
\* an append was waiting for the lock
C1_Witness ==
  /\ bg.last.ok /\ bg.last.before >= 2 /\ bg.last.after = 1
  /\ lock = BgThread
  /\ \E t \in Fg : fg[t].pc = "call" /\ fg[t].op = "save"

\* C2: a load never runs inside somebody's transaction: when the query of a
\* load runs, no transaction is open, and the list it returns is the list on
\* disk (the complete list before a replace or the single fragment after it).
C2_LoadSeesCommitted ==
  [][ \A t \in Fg : notes_load_yjs_updates(t) =>
        /\ journal = NoTx
        /\ fg'[t].res = Ok(load_yjs_updates_for_note(Committed, fg[t].note)) ]_vars

\* a replace has deleted the fragments of a note and not yet committed
MidReplace(note) ==
  /\ journal # NoTx
  /\ NoteRows(journal[1], note) # {}
  /\ NoteRows(db, note) = {}
  /\ \/ \E t \in Fg : fg[t].pc = "deleted" /\ fg[t].op = "replace" /\ fg[t].note = note
     \/ bg.pc = "deleted" /\ bg.note = note

\* C2 witness: a load is invoked and waits while a replace is half done
C2_Witness ==
  \E t \in Fg :
    /\ fg[t].pc = "call" /\ fg[t].op = "load"
    /\ \E note \in NoteIds : MidReplace(note)

\* the tables after ReplaceAll(note, data) from tables d
AfterReplace(d, e, note, data) ==
  /\ load_yjs_updates_for_note(e, note) = <<data>>
  /\ e.rows \ NoteRows(e, note) = d.rows \ NoteRows(d, note)
  /\ e.notes = d.notes

\* the tables after Append(note, data) from tables d
AfterAppend(d, e, note, data) ==
  /\ \E r \in e.rows \ d.rows :
       e.rows = d.rows \cup {r} /\ r.note = note /\ r.data = data
  /\ e.notes = d.notes

\* C3: when the process is killed while a thread is inside an append or a
\* replace, the tables on disk are those from before the command, or, once
\* the command has committed, those after it; the same for the replace of a
\* compaction.
C3_CrashAtomic ==
  [][ Crash =>
        /\ \A t \in Fg :
             (fg[t].op \in {"save", "replace"} /\ fg[t].pc \notin {"idle", "call"}) =>
               \/ db' = fg[t].pre
               \/ /\ fg[t].pc = "ret" /\ fg[t].res.ok
                  /\ IF fg[t].op = "save"
                     THEN AfterAppend(fg[t].pre, db', fg[t].note, fg[t].data)
                     ELSE AfterReplace(fg[t].pre, db', fg[t].note, fg[t].data)
        /\ bg.pc \in {"squashed", "deleted", "inserted"} =>
             load_yjs_updates_for_note(db', bg.note) = bg.updates ]_vars

\* C3 witness: a replace of a note with two fragments has deleted them and
\* inserted the new one, and has not committed
C3_Witness ==
  \E t \in Fg :
    /\ fg[t].pc = "inserted" /\ fg[t].op = "replace"
    /\ journal # NoTx
    /\ Cardinality(NoteRows(fg[t].pre, fg[t].note)) >= 2

\* C4: replaying decodable fragments F1..Fn and encoding the full state gives
\* one fragment that materializes to the same document as F1..Fn.
C4_ReplayEquivalence ==
  (fn.done /\ AllDecode(fn.frags)) =>
    /\ fn.squashed.ok
    /\ decode_v1(fn.squashed.bytes)
    /\ Materialize(<<fn.squashed.bytes>>) = Materialize(fn.frags)

\* C4 witness: three fragments that build the text up ("a", "ab", "ab" with
\* the first character deleted) are squashed to one fragment with that text
C4_Witness ==
  /\ fn.done
  /\ fn.frags = << [ok |-> TRUE, ins |-> {1}, del |-> {}],
                   [ok |-> TRUE, ins |-> {1, 2}, del |-> {}],
                   [ok |-> TRUE, ins |-> {1, 2}, del |-> {1}] >>
  /\ Materialize(<<fn.squashed.bytes>>) = [ok |-> TRUE, text |-> {2}]

DocumentOf(d, note) == Materialize(load_yjs_updates_for_note(d, note))

\* C5: no step of the background compaction changes the document of a note:
\* what the fragments on disk materialize to is the same before and after.
C5_CompactionKeepsDocument ==
  [][ BgStep => \A n \in NoteIds \cup db.notes :
        DocumentOf(Committed', n) = DocumentOf(Committed, n) ]_vars

\* C5 witness: a compaction has replaced the fragments of a note whose
\* document is not empty
C5_Witness ==
  /\ bg.pc = "loop"
  /\ bg.last.ok /\ bg.last.before >= 2 /\ bg.last.after = 1
  /\ DocumentOf(db, bg.last.note).ok
  /\ DocumentOf(db, bg.last.note).text # {}

\* C6: compact_note_updates on a note with 0 or 1 fragments returns (n, n)
\* in one step and writes nothing: tables and journal are as before.
C6_NoOpCompaction ==
  [][ (compact_note_updates_squash
         /\ Cardinality(NoteRows(db, Head(bg.queue))) <= 1) =>
        /\ db' = db /\ journal' = journal
        /\ bg'.pc = "loop"
        /\ bg'.last = Report(Head(bg.queue),
                             Cardinality(NoteRows(db, Head(bg.queue))),
                             Cardinality(NoteRows(db, Head(bg.queue))), TRUE) ]_vars

\* C6 witness: the call has returned (1, 1) for a note with one fragment
C6_Witness ==
  /\ bg.pc = "loop" /\ bg.queue = <<>>
  /\ bg.last.note # 0 /\ bg.last.ok
  /\ bg.last.before = 1 /\ bg.last.after = 1
  /\ Cardinality(NoteRows(db, bg.last.note)) = 1

ListingFailed == bg.last = Report(0, 0, 0, FALSE)

\* C7: when a sweep that has listed its candidates returns, every note has
\* at most one fragment or its failure has been recorded: a failing note
\* does not keep the sweep from compacting the others.
C7_SweepIsolation ==
  (bg.pc = "swept" /\ ~ListingFailed) =>
    \A n \in db.notes :
      \/ n \in bg.failed
      \/ Cardinality(NoteRows(db, n)) <= 1

\* C7 witness: notes 1, 2, 3 with two fragments each, one of note 2 corrupt;
\* the sweep has compacted 1 and 3 and recorded the failure of 2
C7_Witness ==
  /\ bg.pc = "swept"
  /\ bg.failed = {2}
  /\ \E r \in NoteRows(db, 2) : r.data = Corrupt
  /\ Cardinality(NoteRows(db, 2)) = 2
  /\ \A n \in {1, 3} : \E r \in db.rows : NoteRows(db, n) = {r} /\ r.id > 6

\* C8: a successful append adds exactly one row, with the appended bytes and
\* an id greater than every id stored for that note before.
C8_FreshSequenceId ==
  [][ \A t \in Fg : (SaveStep(t) /\ fg'[t].res.ok) =>
        \E r \in db'.rows \ db.rows :
          /\ db'.rows = db.rows \cup {r}
          /\ r.note = fg[t].note /\ r.data = fg[t].data
          /\ \A q \in NoteRows(db, fg[t].note) : r.id > q.id ]_vars

\* C8 witness: an append has succeeded on a note that had a fragment, after
\* the row with the highest id of the table had been deleted
C8_Witness ==
  \E t \in Fg :
    /\ fg[t].pc = "ret" /\ fg[t].op = "save" /\ fg[t].res.ok
    /\ NoteRows(fg[t].pre, fg[t].note) # {}
    /\ \A r \in fg[t].pre.rows : r.id < fg[t].pre.seq

\* C9: a load returns the fragments stored for the note, each once, in
\* ascending id order (the i-th element is the row with i-1 smaller ids),
\* the empty list when there is none, and leaves the tables as they are.
C9_LoadOrdered ==
  [][ \A t \in Fg : notes_load_yjs_updates(t) =>
        LET S == NoteRows(db, fg[t].note)
            out == fg'[t].res.val
        IN  /\ fg'[t].res.ok
            /\ Len(out) = Cardinality(S)
            /\ \A r \in S :
                 out[Cardinality({q \in S : q.id < r.id}) + 1] = r.data
            /\ db' = db /\ journal' = journal ]_vars

\* C9 witness: a load has returned two different fragments
C9_Witness ==
  \E t \in Fg :
    /\ fg[t].pc = "ret" /\ fg[t].op = "load" /\ fg[t].res.ok
    /\ Len(fg[t].res.val) >= 2
    /\ fg[t].res.val[1] # fg[t].res.val[2]

\* C10: when a replace has succeeded, the note has exactly the one fragment
\* of the call, whatever it had before.
C10_ReplaceLeavesOne ==
  \A t \in Fg :
    (fg[t].pc = "ret" /\ fg[t].op = "replace" /\ fg[t].res.ok) =>
      /\ journal = NoTx
      /\ fg[t].note \in db.notes
      /\ load_yjs_updates_for_note(db, fg[t].note) = <<fg[t].data>>

\* C10 witness: a replace has succeeded on a note that had two fragments
C10_Witness ==
  \E t \in Fg :
    /\ fg[t].pc = "ret" /\ fg[t].op = "replace" /\ fg[t].res.ok
    /\ Cardinality(NoteRows(fg[t].pre, fg[t].note)) >= 2

\* C11: when compact_note_updates succeeds on a note with n >= 2 fragments
\* that all decode, the note is left with exactly one stored fragment, the
\* squashed one, and the call reports (n, 1).
C11_CompactOneLeavesOne ==
  [][ replace_yjs_updates_for_note_commit =>
        LET n == Len(bg.updates) IN
        /\ n >= 2 /\ AllDecode(bg.updates)
        /\ bg'.last = Report(bg.note, n, 1, TRUE)
        /\ journal' = NoTx
        /\ Cardinality(NoteRows(db', bg.note)) = 1
        /\ load_yjs_updates_for_note(db', bg.note) = <<Squash(bg.updates).bytes>> ]_vars

\* C11 witness: a compaction of a note with MaxStored fragments has returned
\* (MaxStored, 1)
C11_Witness ==
  /\ bg.pc = "loop" /\ bg.queue = <<>>
  /\ bg.last = Report(bg.note, MaxStored, 1, TRUE)
  /\ Cardinality(NoteRows(db, bg.note)) = 1

\* C12: every successful append of the edit path sets the updated timestamp
\* of the note it appends to, in the transaction of the insert: when the
\* append returns Ok, updated_at of the note is the time of the call.
C12_AppendTouchesNote ==
  [][ \A t \in Fg :
        (notes_save_yjs_update(t) /\ fg'[t].res.ok) =>
          Committed'.meta[fg[t].note].updated_at = now ]_vars

\* what compaction must not write: the row of every note in the notes table
NotesTable(d) == [notes |-> d.notes, meta |-> d.meta]

\* C13: no step of the sweep (compact_all_notes, compact_note_updates,
\* replace_yjs_updates_for_note) changes the notes table: every note keeps
\* its title, icon, created_at and updated_at.
C13_CompactionKeepsMetadata ==
  [][ BgStep => NotesTable(db') = NotesTable(db)
                  /\ NotesTable(Committed') = NotesTable(Committed) ]_vars

\* C13 witness: a compaction has merged the fragments of a note that was
\* renamed, given an icon, and last updated before the present second
C13_Witness ==
  /\ bg.pc = "loop"
  /\ bg.last.ok /\ bg.last.before >= 2 /\ bg.last.after = 1
  /\ bg.last.note \in db.notes
  /\ db.meta[bg.last.note].title # NewTitle
  /\ db.meta[bg.last.note].icon # NewIcon
  /\ db.meta[bg.last.note].updated_at < now

\* C14: when notes.deleteNote has deleted a note, whatever number of
\* fragments it had, no fragment of that note is left, and the fragment list
\* of every other note is what it was before the call.
C14_DeleteCascades ==
  \A t \in Fg :
    (fg[t].pc = "ret" /\ fg[t].op = "deleteNote" /\ fg[t].res.ok) =>
      /\ journal = NoTx
      /\ fg[t].note \in fg[t].pre.notes
      /\ fg[t].note \notin db.notes
      /\ \A r \in db.rows : r.note # fg[t].note
      /\ \A m \in NoteIds \ {fg[t].note} :
           NoteRows(db, m) = NoteRows(fg[t].pre, m)

\* C14 witness: a note with two fragments has been deleted while another
\* note had a fragment
C14_Witness ==
  \E t \in Fg :
    /\ fg[t].pc = "ret" /\ fg[t].op = "deleteNote" /\ fg[t].res.ok
    /\ Cardinality(NoteRows(fg[t].pre, fg[t].note)) >= 2
    /\ \E m \in NoteIds \ {fg[t].note} : NoteRows(db, m) # {}

\* a thread is between its first and its last access to the store
InStore(t) ==
  IF t = BgThread THEN bg.pc # "sleep"
  ELSE fg[t].pc \notin {"idle", "call"}

\* C15: at most one operation (append, load, replace, note create, note
\* delete, sweep) is executing against the store at any time: a thread that
\* is between its first and its last store access owns the connection lock,
\* and an open transaction belongs to the owner of the lock.
C15_MutualExclusion ==
  /\ \A t \in Fg \cup {BgThread} : InStore(t) => lock = t
  /\ Cardinality({t \in Fg \cup {BgThread} : InStore(t)}) <= 1
  /\ journal # NoTx => lock # Free

\* C15 witness: a replace is half done, the other webview thread has called
\* an append and the sweep is due; both wait
C15_Witness ==
  /\ fg["f1"].pc = "deleted" /\ fg["f1"].op = "replace"
  /\ fg["f2"].pc = "call" /\ fg["f2"].op = "save"
  /\ bg.pc = "sleep"
  /\ lock = "f1"

\* C16: an append never deduplicates: a successful append puts its bytes at
\* the end of the list of the note even when the note already holds a
\* fragment with the same bytes, which then stays, under its own id.
C16_AppendKeepsDuplicates ==
  [][ \A t \in Fg :
        (notes_save_yjs_update(t) /\ fg'[t].res.ok) =>
          LET note == fg[t].note
              same(d) == {r \in NoteRows(d, note) : r.data = fg[t].data}
          IN  /\ load_yjs_updates_for_note(db', note) =
                   Append(load_yjs_updates_for_note(db, note), fg[t].data)
              /\ same(db) \subseteq same(db')
              /\ Cardinality(same(db')) = Cardinality(same(db)) + 1 ]_vars

\* C16 witness: the same bytes were appended twice to a note and a load has
\* returned both
C16_Witness ==
  \E t \in Fg :
    /\ fg[t].pc = "ret" /\ fg[t].op = "load" /\ fg[t].res.ok
    /\ Len(fg[t].res.val) = 2
    /\ fg[t].res.val[1] = fg[t].res.val[2]
    /\ Cardinality(NoteRows(db, fg[t].note)) = 2

\* C17: the scheduler never overlaps two sweeps: the one compaction thread
\* starts a sweep only out of its wait, by taking the free lock, and starts
\* the next wait only when compact_all_notes has returned, with no note
\* left to visit and no transaction open, giving the lock back (a killed
\* process starts over with a new thread).
C17_SweepsInSequence ==
  [][ /\ (bg.pc = "sleep" /\ bg'.pc # "sleep") =>
           /\ lock = Free /\ lock' = BgThread
           /\ bg'.pc = "listing"
      /\ (bg.pc # "sleep" /\ bg'.pc = "sleep" /\ ~Crash) =>
           /\ bg.pc = "swept" /\ bg.queue = <<>>
           /\ journal = NoTx
           /\ lock = BgThread /\ lock' = Free
      /\ (bg.pc # "sleep" /\ bg'.pc # "sleep") => lock = BgThread /\ lock' = BgThread ]_vars

\* C17 witness: a sweep that merged two fragments has returned, the thread
\* waits for its next run, and a webview thread already holds the lock
C17_Witness ==
  /\ bg.pc = "sleep"
  /\ lock \in Fg
  /\ \E r \in db.rows :
       r.data = Squash(<<[ok |-> TRUE, ins |-> {1}, del |-> {}],
                         [ok |-> TRUE, ins |-> {2}, del |-> {1}]>>).bytes

\* a step of the sweep that ends in an error: the listing fails, a fragment
\* does not decode, or a statement fails in the storage layer
SweepFailure ==
  \/ compact_all_notes_list_error
  \/ compact_note_updates_error
  \/ compact_note_updates_squash /\ bg'.pc = "loop" /\ ~bg'.last.ok
  \/ replace_yjs_updates_for_note_insert /\ bg'.pc = "loop"

\* what is left of a sweep: the notes still to visit and the steps left of
\* the note being compacted
SweepLeft ==
  IF bg.pc = "sleep" THEN 0
  ELSE IF bg.pc = "listing" THEN 4 * Cardinality({r.note : r \in db.rows}) + 3
  ELSE 4 * Len(bg.queue) +
         (CASE bg.pc = "squashed" -> 5
            [] bg.pc = "deleted" -> 4
            [] bg.pc = "inserted" -> 3
            [] bg.pc = "loop" -> 2
            [] OTHER -> 1)

\* the points of the loop of spawn_compaction_task; each has a next step
SweepPoints ==
  {"sleep", "listing", "loop", "squashed", "deleted", "inserted", "swept"}

CompactOneRefuses ==
  /\ bg'.pc = "loop"
  /\ ~bg'.last.ok /\ bg'.last.note = Head(bg.queue)
  /\ Head(bg.queue) \in bg'.failed
  /\ db' = db /\ journal' = journal

\* C19 as stated: whenever one of the fragments of a note does not decode,
\* compact_note_updates returns an error, replaces nothing and leaves the
\* stored list as it was.
C19_CorruptAlwaysRefused ==
  [][ (compact_note_updates_squash
         /\ ~AllDecode(load_yjs_updates_for_note(db, Head(bg.queue)))) =>
        CompactOneRefuses ]_vars

\* C19, amended: when a note has two or more fragments and one of them does
\* not decode, compact_note_updates returns an error, replaces nothing and
\* leaves the stored list, the corrupt fragment included, as it was; a note
\* with a single fragment is a no-op that is never decoded: the call
\* returns Ok (1, 1) and the list is unchanged as well.
C19_CorruptRefusedWhenMerging ==
  [][ compact_note_updates_squash =>
        LET updates == load_yjs_updates_for_note(db, Head(bg.queue)) IN
        /\ (Len(updates) >= 2 /\ ~AllDecode(updates)) => CompactOneRefuses
        /\ (Len(updates) <= 1 /\ ~AllDecode(updates)) =>
             /\ bg'.last = Report(Head(bg.queue), 1, 1, TRUE)
             /\ db' = db /\ journal' = journal ]_vars

\* C19 witness: the compaction of a note with a good and a corrupt fragment
\* has returned an error and both fragments are stored
C19_Witness ==
  /\ bg.pc = "loop"
  /\ bg.last = Report(bg.note, 2, 2, FALSE)
  /\ bg.note \in bg.failed
  /\ journal = NoTx
  /\ \E r, q \in NoteRows(db, bg.note) : r.data = Corrupt /\ q.data.ok

\* C20: a failed append or replace is never partially applied: when either
\* command has returned an error (the note does not exist, or a statement
\* failed, also the INSERT after the DELETE of a replace), no transaction is
\* left open and the fragment list of every note, with the rest of the
\* tables, is what it was when the command took the lock.
C20_FailureAppliesNothing ==
  \A t \in Fg :
    (fg[t].pc = "ret" /\ fg[t].op \in {"save", "replace"} /\ ~fg[t].res.ok) =>
      /\ journal = NoTx
      /\ \A n \in NoteIds :
           load_yjs_updates_for_note(db, n) = load_yjs_updates_for_note(fg[t].pre, n)
      /\ db = fg[t].pre

\* C20 witness: a replace of a note that had a fragment has failed while
\* another note had a fragment of its own
C20_Witness ==
  \E t \in Fg :
    /\ fg[t].pc = "ret" /\ fg[t].op = "replace" /\ ~fg[t].res.ok
    /\ NoteRows(fg[t].pre, fg[t].note) # {}
    /\ \E m \in NoteIds \ {fg[t].note} : NoteRows(db, m) # {}

\* the step commits a replace of the fragments of note, by a command or by
\* the compaction, or deletes the note
Supersedes(note) ==
  \/ \E t \in Fg : notes_replace_yjs_updates_commit(t) /\ fg[t].note = note
  \/ replace_yjs_updates_for_note_commit /\ bg.note = note
  \/ \E t \in Fg : deleteNote(t) /\ fg[t].note = note

\* C21: a stored fragment stays stored, with its bytes, its sequence id and
\* its note, until a replace or a compaction of its note commits or its note
\* is deleted: no other step (an append, a load, a command on another note,
\* a compaction that fails, a kill of the process) takes it off the disk,
\* and no step stores another fragment under its id.
C21_FragmentLifecycle ==
  [][ /\ \A r \in Committed.rows :
           r \in Committed'.rows \/ Supersedes(r.note)
      /\ \A r \in Committed.rows : \A q \in Committed'.rows :
           q.id = r.id => q = r ]_vars

\* C21 witness: the compaction of a note with two decodable fragments has
\* failed in the storage layer and both fragments are stored
C21_Witness ==
  /\ bg.pc = "loop"
  /\ bg.last = Report(bg.note, 2, 2, FALSE)
  /\ journal = NoTx
  /\ Cardinality(NoteRows(db, bg.note)) = 2
  /\ \A r \in NoteRows(db, bg.note) : r.data.ok

\* the fragment list of every note but one is the same in d and e
OthersKept(d, e, note) ==
  \A m \in (d.notes \cup e.notes \cup NoteIds) \ {note} :
    load_yjs_updates_for_note(e, m) = load_yjs_updates_for_note(d, m)

\* C22: every step of an append or a replace on a note, and every step of
\* the compaction of a note, leaves the fragment list of every other note as
\* it is, the same fragments in the same order, in the connection and on
\* disk, whatever the other threads have called or are waiting to call.
C22_CrossNoteIsolation ==
  [][ /\ \A t \in Fg :
           ( /\ fg[t].op \in {"save", "replace"}
             /\ \/ notes_save_yjs_update(t)
                \/ notes_replace_yjs_updates_delete(t)
                \/ notes_replace_yjs_updates_insert(t)
                \/ notes_replace_yjs_updates_commit(t)
                \/ StorageError(t) ) =>
             /\ OthersKept(db, db', fg[t].note)
             /\ OthersKept(Committed, Committed', fg[t].note)
      /\ ( \/ replace_yjs_updates_for_note_delete
           \/ replace_yjs_updates_for_note_insert
           \/ replace_yjs_updates_for_note_commit
           \/ compact_note_updates_error /\ bg.pc # "loop" ) =>
             /\ OthersKept(db, db', bg.note)
             /\ OthersKept(Committed, Committed', bg.note)
      /\ compact_note_updates_squash =>
             /\ OthersKept(db, db', Head(bg.queue))
             /\ OthersKept(Committed, Committed', Head(bg.queue)) ]_vars

\* C22 witness: a replace on one note has succeeded while the other note
\* holds a fragment and the other webview thread waits with an append
C22_Witness ==
  \E t \in Fg :
    /\ fg[t].pc = "ret" /\ fg[t].op = "replace" /\ fg[t].res.ok
    /\ NoteRows(fg[t].pre, fg[t].note) # {}
    /\ \E m \in NoteIds \ {fg[t].note} : NoteRows(db, m) # {}
    /\ \E u \in Fg \ {t} : fg[u].pc = "call" /\ fg[u].op = "save"

\* the position of the first update of a list that does not decode, 0 when
\* all decode
FirstCorrupt(updates) ==
  IF AllDecode(updates) THEN 0
  ELSE CHOOSE i \in 1..Len(updates) :
         /\ ~decode_v1(updates[i])
         /\ \A j \in 1..(i - 1) : decode_v1(updates[j])

\* the list with the updates at positions i and j exchanged
Swap(updates, i, j) ==
  [k \in 1..Len(updates) |->
     IF k = i THEN updates[j] ELSE IF k = j THEN updates[i] ELSE updates[k]]

\* C23: when the squash of a list hits an update that does not decode, the
\* error it reports tells which update failed: the same updates stored in
\* another order, with the failure at another position, give another
\* error.
C23_ErrorNamesFragment ==
  (fn.done /\ ~fn.squashed.ok) =>
    \A i, j \in 1..Len(fn.frags) :
      LET other == Swap(fn.frags, i, j) IN
      FirstCorrupt(other) # FirstCorrupt(fn.frags) =>
        SquashError(other) # fn.error

\* C24: appends that begin after a replace of the note has completed are
\* applied on top of it: every load returns the fragment of the replace
\* first and the appended fragments after it, each successful append going
\* to the end of the list, so that they stand in the order in which the
\* appends completed.
C24_AppendOnTopOfReplace ==
  /\ [](Head(load_yjs_updates_for_note(Committed, 1)) = fn.frags[1])
  /\ [][ \A t \in Fg :
           /\ (notes_save_yjs_update(t) /\ fg'[t].res.ok) =>
                load_yjs_updates_for_note(db', fg[t].note) =
                  Append(load_yjs_updates_for_note(db, fg[t].note), fg[t].data)
           /\ (notes_load_yjs_updates(t) /\ fg[t].note = 1) =>
                /\ fg'[t].res.ok
                /\ Head(fg'[t].res.val) = fn.frags[1]
                /\ Tail(fg'[t].res.val) =
                     Tail(load_yjs_updates_for_note(Committed, 1)) ]_vars

\* C24 witness: after the replace two different fragments were appended,
\* and a load has returned the fragment of the replace and then the two
C24_Witness ==
  \E t \in Fg :
    /\ fg[t].pc = "ret" /\ fg[t].op = "load" /\ fg[t].res.ok
    /\ Len(fg[t].res.val) = 3
    /\ fg[t].res.val[1] = fn.frags[1]
    /\ fg[t].res.val[2] # fg[t].res.val[3]
    /\ fg[t].res.val[2] # fg[t].res.val[1]

\* the notes of a list
Range(q) == {q[i] : i \in 1..Len(q)}

\* compact_note_updates is called for the note at the head of the work list
CompactOneCall ==
  \/ compact_note_updates_squash
  \/ compact_note_updates_error /\ bg.pc = "loop"

C26_LockReleasedOnExit ==
  /\ [](\A t \in Fg \cup {BgThread} : lock = t => InStore(t))
  /\ [][ /\ \A t \in Fg :
             (InStore(t) /\ fg'[t].pc \in {"idle", "call"}) =>
               lock' = Free /\ journal' = NoTx
         /\ (InStore(BgThread) /\ bg'.pc = "sleep") =>
               lock' = Free /\ journal' = NoTx ]_vars

\* C26 witness: a replace of an existing note has failed and is about to
\* return while the other webview thread waits for the lock
C26_Witness ==
  \E t \in Fg :
    /\ fg[t].pc = "ret" /\ fg[t].op = "replace" /\ ~fg[t].res.ok
    /\ fg[t].note \in db.notes
    /\ lock = t
    /\ \E u \in Fg \ {t} : fg[u].pc = "call"

\* C27: the wait ends at the next time the local clock shows 02:00: when
\* the clock shows less than 02:00 and 02:00 comes today, at 02:00 today;
\* otherwise, when 02:00 comes tomorrow, at 02:00 tomorrow; the wait is
\* never negative, and on plain days it is never more than 24 hours.
C27_WaitEndsAtNextTwo ==
  fn.done =>
    LET k == fn.days
        today == with_ymd_and_hms(k, 1, 2)
        tomorrow == with_ymd_and_hms(k, 2, 2)
        ends == fn.at + fn.sleep_for
    IN  /\ fn.sleep_for >= 0
        /\ (hour(k, fn.at) < 2 /\ today # {}) => ends \in today
        /\ (hour(k, fn.at) >= 2 /\ tomorrow # {}) => ends \in tomorrow
        /\ (k[1] = "plain" /\ k[2] = "plain") => fn.sleep_for <= 24

\* every fragment of the tables belongs to a note of the tables
Referential(d) == \A r \in d.rows : r.note \in d.notes

\* C28: referential integrity is an invariant: in every state every stored
\* fragment, committed or written by the open transaction, belongs to an
\* existing note; and an append or a replace for a note id that does not
\* exist, because it was never created or was deleted, fails and stores
\* nothing.
C28_ReferentialIntegrity ==
  /\ Referential(db)
  /\ Referential(Committed)
  /\ \A t \in Fg :
       ( /\ fg[t].pc = "ret" /\ fg[t].op \in {"save", "replace"}
         /\ fg[t].note \notin fg[t].pre.notes ) =>
         /\ ~fg[t].res.ok
         /\ db = fg[t].pre

\* C28 witness: an append to a note that was created and deleted again has
\* failed, while another note holds a fragment
C28_Witness ==
  \E t \in Fg :
    /\ fg[t].pc = "ret" /\ fg[t].op = "save" /\ ~fg[t].res.ok
    /\ fg[t].note \notin db.notes
    /\ fg[t].note <= db.noteSeq
    /\ db.rows # {}

\* C29: a sweep is one critical section: from the step that takes the lock
\* to the step that gives it back the compaction thread owns the lock, so
\* every webview thread stays outside the store (it is idle or waits for
\* the lock) through the listing and every compact_note_updates call, and
\* what is committed changes only by the commit of the sweep itself;
\* consequently, at the step that releases the lock after a listing that
\* succeeded, every note whose compaction did not fail has at most one
\* fragment.
C29_SweepCriticalSection ==
  [][ /\ bg.pc # "sleep" =>
           /\ lock = BgThread
           /\ \A t \in Fg : /\ fg[t].pc \in {"idle", "call"}
                            /\ fg'[t].pc \in {"idle", "call"}
           /\ Committed' # Committed => replace_yjs_updates_for_note_commit
      /\ (bg.pc = "swept" /\ bg'.pc = "sleep" /\ ~ListingFailed) =>
           /\ lock' = Free
           /\ \A n \in db'.notes :
                \/ n \in bg.failed
                \/ Cardinality(NoteRows(db', n)) <= 1 ]_vars

\* C29 witness: the sweep has merged the two fragments of a note and is
\* about to release the lock, while one webview thread has called an append
\* and the other a note deletion; both are still waiting for the lock
C29_Witness ==
  /\ bg.pc = "swept" /\ lock = BgThread
  /\ bg.last.ok /\ bg.last.before = 2 /\ bg.last.after = 1
  /\ Cardinality(NoteRows(db, bg.last.note)) = 1
  /\ fg["f1"].pc = "call" /\ fg["f1"].op = "save"
  /\ fg["f2"].pc = "call" /\ fg["f2"].op = "deleteNote"

\* the row id of the fragment appended after the load of thread f1
AppendedSince == Len(fn.frags) + 1

\* that fragment is in the tables d
StillStored(d) == \E r \in d.rows : r.id = AppendedSince

\* C30: a replace is unconditional: it removes every fragment the note has
\* when it runs, also the fragment another thread appended after the
\* replacing thread loaded the note.  After load by f1, append by f2 and a
\* replace by f1, the replace succeeds unless the storage layer fails, the
\* note holds the bytes of the replace alone, the appended fragment is in
\* no table, it never comes back, and every later load returns the stored
\* list, which is without it.
C30_ReplaceIsUnconditional ==
  /\ [](\A t \in Fg :
         ( /\ fg[t].pc = "ret" /\ fg[t].op = "replace"
           /\ fg[t].note = 1 /\ fg[t].res.ok ) =>
           /\ load_yjs_updates_for_note(db, 1) = <<fg[t].data>>
           /\ ~StillStored(db)
           /\ ~StillStored(Committed))
  /\ [][ /\ \A t \in Fg :
             ( /\ fg[t].pc = "inserted" /\ fg[t].op = "replace"
               /\ fg'[t].pc = "ret" /\ ~StorageError(t) ) => fg'[t].res.ok
        /\ ~StillStored(Committed) => ~StillStored(Committed')
        /\ \A t \in Fg :
             ( /\ fg[t].pc = "locked" /\ fg[t].op = "load" /\ fg[t].note = 1
               /\ fg'[t].pc = "ret" /\ fg'[t].res.ok ) =>
               /\ fg'[t].res.val = load_yjs_updates_for_note(Committed, 1)
               /\ ~StillStored(Committed) =>
                    Len(fg'[t].res.val) =
                      Cardinality({r \in NoteRows(Committed, 1) :
                                     r.id > AppendedSince}) ]_vars

\* C30 witness: f1 had loaded one fragment, f2 has appended an edit on top
\* of it, f1 has replaced the note with the snapshot of what it had loaded,
\* and f2 has loaded the note since: it got the snapshot alone, the edit is
\* not part of it
C30_Witness ==
  /\ fn.frags = <<[ok |-> TRUE, ins |-> {1}, del |-> {}]>>
  /\ ~StillStored(db)
  /\ load_yjs_updates_for_note(db, 1) = <<Squash(fn.frags).bytes>>
  /\ db.seq = 3
  /\ fg["f2"].pc = "ret" /\ fg["f2"].op = "load" /\ fg["f2"].note = 1
  /\ fg["f2"].res = Ok(<<Squash(fn.frags).bytes>>)
  /\ Materialize(fg["f2"].res.val).text = {1}

\* note n holds two or more fragments and all of them decode
Mergeable(n) ==
  /\ Cardinality(NoteRows(Committed, n)) >= 2
  /\ AllDecode(load_yjs_updates_for_note(Committed, n))

\* a command of a webview thread is writing to note n
Written(n) ==
  \E t \in Fg : /\ fg[t].pc \in {"locked", "ret"}
                /\ fg[t].op = "save" /\ fg[t].note = n

WaitsForSweep(t) == fg[t].pc = "call" /\ bg.pc # "sleep"

\* C32: every sweep terminates, whatever fails in it, so a command that
\* waits for the lock while a sweep runs gets the lock and returns (an
\* append only while row ids are left within MaxSeq); the wait itself never
\* fails: a waiting command stays waiting until it is given the free lock,
\* and a command gets its result only while it owns the lock.
C32_SweepEndsAndHandsOver ==
  /\ (bg.pc # "sleep") ~> (bg.pc = "sleep")
  /\ WaitsForSweep("f1") ~>
       (fg["f1"].pc = "ret" \/ ~Room(fg["f1"].op, NoUpdate))
  /\ [][ \A t \in Fg :
          /\ fg[t].pc = "call" =>
               \/ fg'[t] = fg[t]
               \/ fg'[t].pc = "locked" /\ lock = Free /\ lock' = t
          /\ (fg[t].pc # "ret" /\ fg'[t].pc = "ret") => lock = t ]_vars

\* C32 witness: the sweep has failed on note 1, which holds a fragment that
\* does not decode, and has returned; an append was called meanwhile and
\* still waits, with row ids left for it
C32_Witness ==
  /\ bg.pc = "swept" /\ bg.failed = {1} /\ lock = BgThread
  /\ fg["f1"].pc = "call" /\ fg["f1"].op = "save"
  /\ Room("save", NoUpdate)

\* thread t is in a lock() call on mutex l, which another call owns
WaitsFor(t, l) ==
  /\ StepOf(t) = <<"lock", l>>
  /\ Owner(l) # Free

\* the mutexes thread t owns
Held(t) == {l \in {"settings", "db", "recording"} : Owner(l) = t}

\* C33: no deadlock across the mutexes: a thread that calls
\* settings.lock() owns no mutex; a request handler that owns db or
\* recording owns settings, and never db and recording together; fragment
\* commands and the sweep own at most db; so in no state is there a set of
\* threads each waiting for a mutex that a thread of the set owns, and
\* while any command is running some thread can take its next step.
C33_NoLockCycle ==
  /\ \A t \in LockThreads :
       /\ StepOf(t) = <<"lock", "settings">> => Held(t) = {}
       /\ fn.run[t].cmd \in {"notes_yjs", "compaction"} => Held(t) \subseteq {"db"}
       /\ fn.run[t].cmd = "audio_data_chunk" => Held(t) \subseteq {"recording"}
       /\ ( /\ fn.run[t].cmd \notin {"notes_yjs", "compaction", "audio_data_chunk"}
            /\ Held(t) # {} ) =>
            /\ "settings" \in Held(t)
            /\ ~({"db", "recording"} \subseteq Held(t))
  /\ \A S \in SUBSET LockThreads :
       S # {} =>
         \E t \in S : \A l \in {"settings", "db", "recording"} :
           WaitsFor(t, l) => Owner(l) \notin S
  /\ (\E t \in LockThreads : fn.run[t].cmd # "none") =>
       \E t \in LockThreads :
         /\ fn.run[t].cmd # "none"
         /\ \A l \in {"settings", "db", "recording"} : ~WaitsFor(t, l)

\* C33 witness: a chain of waits without a cycle: the sweep owns db,
\* recording.signalStop on f1 owns settings and waits for db, and a
\* request handler on f2 waits for settings
C33_Witness ==
  /\ lock = BgThread
  /\ fn.run["f1"].cmd = "trpc_signalStop" /\ WaitsFor("f1", "db")
  /\ fn.settings = "f1" /\ fn.recording = Free
  /\ fn.run["f2"].cmd = "trpc_db" /\ WaitsFor("f2", "settings")

\* the fragments a note created with the bytes data starts with
FirstFragments(data) == IF data = NoUpdate THEN <<>> ELSE <<data>>

\* C34: note creation is atomic with its first fragment: when createNote
\* returns, a note it has added holds exactly one fragment, made of the
\* initial content, or no fragment when the initial content is empty, and
\* a successful call has added its note; and what is committed gets a new
\* note only in the commit step of a createNote, together with those
\* fragments, so that a failure or a kill of the process in the middle
\* leaves neither.
C34_CreateNoteAtomic ==
  /\ [](\A t \in Fg :
         (fg[t].pc = "ret" /\ fg[t].op = "createNote") =>
           /\ fg[t].res.ok =>
                /\ fg[t].note \in db.notes \ fg[t].pre.notes
                /\ db.notes = fg[t].pre.notes \cup {fg[t].note}
           /\ \A n \in db.notes \ fg[t].pre.notes :
                /\ n = fg[t].note
                /\ load_yjs_updates_for_note(db, n) = FirstFragments(fg[t].data)
           /\ \A n \in fg[t].pre.notes : NoteRows(db, n) = NoteRows(fg[t].pre, n))
  /\ [][ \A n \in Committed'.notes \ Committed.notes :
          \E t \in Fg :
            /\ fg[t].op = "createNote" /\ fg[t].pc = "inserted"
            /\ fg'[t].pc = "ret" /\ fg'[t].res.ok
            /\ fg[t].note = n
            /\ load_yjs_updates_for_note(Committed', n) =
                 FirstFragments(fg[t].data) ]_vars

\* C34 witness: note 1 was created with empty initial content and has no
\* fragment; note 2 has just been created with initial content and has
\* exactly the fragment made of it
C34_Witness ==
  \E t \in Fg :
    /\ fg[t].pc = "ret" /\ fg[t].op = "createNote" /\ fg[t].res.ok
    /\ fg[t].data = yjs_update_from_text
    /\ fg[t].note = 2 /\ db.notes = {1, 2}
    /\ NoteRows(db, 1) = {}
    /\ load_yjs_updates_for_note(db, 2) = <<yjs_update_from_text>>
    /\ db.seq = 1

\* C35: after any calls of createMode, updateMode, deleteMode and
\* setActiveMode on a list that default settings and such calls have made,
\* the list is not empty, has at most 20 modes, holds the default mode,
\* and the active mode id is the id of a mode of the list; a call to
\* delete the default mode is rejected, a deleted active mode leaves
\* "default" active, and every rejected call leaves the modes as they
\* were.
C35_ModesInvariant ==
  /\ [](/\ Len(fn.modes.items) >= 1
        /\ Len(fn.modes.items) <= ModeLimit
        /\ \E i \in 1..Len(fn.modes.items) :
             fn.modes.items[i].id = DefaultId /\ fn.modes.items[i].is_default
        /\ fn.modes.active_mode_id \in ModeIds(fn.modes)
        /\ (fn.last.op = "deleteMode" /\ fn.last.mode_id = DefaultId) =>
             ~fn.last.ok)
  /\ [][ /\ ~fn'.last.ok => fn'.modes = fn.modes
        /\ ( /\ fn'.last.op = "deleteMode" /\ fn'.last.ok
             /\ fn'.last.mode_id = fn.modes.active_mode_id ) =>
             /\ fn'.modes.active_mode_id = DefaultId
             /\ fn'.last.mode_id \notin ModeIds(fn'.modes) ]_vars

\* C35 witness: the list was full, with 20 modes; after two calls, none of
\* which added a mode, the last has deleted the active mode, a mode of the
\* user, which left 19 modes and the default mode active
C35_Witness ==
  /\ fn.calls = 2
  /\ fn.next = ModeLimit
  /\ Len(fn.modes.items) = ModeLimit - 1
  /\ fn.last.op = "deleteMode" /\ fn.last.ok /\ fn.last.mode_id # DefaultId
  /\ fn.modes.active_mode_id = DefaultId
  /\ fn.last.mode_id \notin ModeIds(fn.modes)

====
